---------------------------- MODULE Spec2Model ----------------------------
(***************************************************************************)
(* Approval-gated execution engine: the policy engine (agent/policy.py),   *)
(* the step loop (agent/orchestrator.py) and the approval handshake of the *)
(* run manager (webapp/run_manager.py), with its threads and locks.        *)
(*                                                                         *)
(* Text is modelled as sequences of one-character strings, so that strip,  *)
(* lower, split and the regular expressions are computed, not assumed.     *)
(***************************************************************************)
EXTENDS Integers, Sequences, FiniteSets, TLC

VARIABLES
    \* ---- policy engine under test (agent/policy.py)
    engine,         \* [root_dir, allowed_shell_commands] of the PolicyEngine
    pol_proposal,   \* the ActionProposal handed to evaluate
    pol_decision,   \* the PolicyDecision status returned, or None
    \* ---- step loop (agent/orchestrator.py, Orchestrator.run)
    pc,             \* position of Orchestrator.run
    cfg,            \* RunConfig: max_steps, approval_mode, max_retries
    goal,           \* session.goal
    oracle,         \* a call of ModelClient.decide: the client, the reply, what it returned
    step,           \* loop variable of run
    decision,       \* the AgentDecision of the current step, or None
    policy_status,  \* policy_decision.status of the current step, or None
    always_deny_tools,
    retries,        \* local of _execute_with_retries
    last,           \* local of _execute_with_retries (last ActionResult)
    messages,       \* session.messages
    events,         \* session.events
    jsonl,          \* rows written by _json_log
    log_ok,         \* whether open(log_path, "a") succeeds in this run
    result,         \* value returned by run, or None
    asked,          \* input_fn calls of the current step, with their answers
    attempts,       \* _execute_tool calls of the current step
    executed,       \* _execute_tool calls of the whole run
    oracle_calls,   \* model_client.decide calls of the whole run
    evaluated,      \* whether policy.evaluate was called in the current step
    \* ---- run manager (webapp/run_manager.py)
    runs,           \* RunManager._runs: the run ids registered
    request,        \* RunState.request, per run
    status,         \* RunState.status, per run
    final_text,     \* RunState.final_text, per run
    error,          \* RunState.error, per run
    session,        \* RunState.session, per run: None or the session's goal
    pending,        \* RunState.pending, per run: <<>> (None) or <<PendingApproval>>
    approval_answer,\* RunState.approval_answer, per run: <<>> (None) or <<text>>
    run_events,     \* RunState.events, per run
    wpc,            \* position of each run's worker thread
    wstep,          \* step of the worker's step loop
    wcall,          \* the tool and stage of the worker's current gate call
    wresult,        \* what orchestrator.run returned to the worker ("" before)
    gate_ret,       \* what _wait_for_approval returned to the worker
    next_request,   \* the next fresh request id (uuid4)
    approve_calls,      \* approve calls made so far
    api_ret,        \* what the approve or snapshot call of the last step returned
    \* ---- threads and locks of the run manager (webapp/run_manager.py, app.py)
    lock_owner,     \* per lock (_runs_lock, each RunState.lock): its holder
    caller          \* per request-handling thread: the call it is serving

None == "None"

\* ------------------------------------------------------------------ text

Uppers == <<"A","B","C","D","E","F","G","H","I","J","K","L","M",
            "N","O","P","Q","R","S","T","U","V","W","X","Y","Z">>
Lowers == <<"a","b","c","d","e","f","g","h","i","j","k","l","m",
            "n","o","p","q","r","s","t","u","v","w","x","y","z">>
Digits == {"0","1","2","3","4","5","6","7","8","9"}

Range(s) == { s[i] : i \in DOMAIN s }

\* the lowercase letter of each uppercase letter
LowerTable ==
    [ c \in Range(Uppers) |-> Lowers[CHOOSE i \in DOMAIN Uppers : Uppers[i] = c] ]

\* str.lower on one character
LowerChar(c) == IF c \in DOMAIN LowerTable THEN LowerTable[c] ELSE c

\* str.lower
Lower(s) == [ i \in DOMAIN s |-> LowerChar(s[i]) ]

\* the characters str.strip, str.split and \s treat as whitespace
IsSpace(c) == c \in {" ", "\t", "\n"}

\* the characters \b and \w treat as word characters
WordChars == Range(Uppers) \cup Range(Lowers) \cup Digits \cup {"_"}
IsWord(c) == c \in WordChars

RECURSIVE LStrip(_)
LStrip(s) == IF s # <<>> /\ IsSpace(Head(s)) THEN LStrip(Tail(s)) ELSE s

RECURSIVE RStrip(_)
RStrip(s) ==
    IF s # <<>> /\ IsSpace(s[Len(s)]) THEN RStrip(SubSeq(s, 1, Len(s) - 1)) ELSE s

\* str.strip
Strip(s) == RStrip(LStrip(s))

\* str.split()[0] of a stripped, non-empty string: up to the first whitespace
RECURSIVE FirstToken(_)
FirstToken(s) ==
    IF s = <<>> \/ IsSpace(Head(s)) THEN <<>>
    ELSE <<Head(s)>> \o FirstToken(Tail(s))

\* ------------------------------------------------- regular expressions

\* pattern elements
B == [k |-> "b"]                    \* \b
S1 == [k |-> "s+"]                  \* \s+
L(c) == [k |-> "lit", c |-> c]      \* a literal character
Cs(cs) == [k |-> "set", cs |-> cs]  \* a character class

\* agent/policy.py BLOCKED_SHELL_PATTERNS
BLOCKED_SHELL_PATTERNS == <<
    <<B, L("r"), L("m"), S1, L("-"), L("r"), L("f"), B>>,
    <<B, L("d"), L("e"), L("l"), S1, L("/"), Cs({"s", "q"}), B>>,
    <<B, L("f"), L("o"), L("r"), L("m"), L("a"), L("t"), B>>,
    <<B, L("s"), L("h"), L("u"), L("t"), L("d"), L("o"), L("w"), L("n"), B>>,
    <<B, L("r"), L("e"), L("b"), L("o"), L("o"), L("t"), B>>,
    <<B, L("m"), L("k"), L("f"), L("s"), B>>
>>

\* \b at position pos (between s[pos-1] and s[pos])
AtBoundary(s, pos) ==
    LET before == pos > 1 /\ pos - 1 <= Len(s) /\ IsWord(s[pos - 1])
        after  == pos >= 1 /\ pos <= Len(s) /\ IsWord(s[pos])
    IN  before # after

\* re.match of pattern elements i.. at position pos of s
RECURSIVE MatchAt(_, _, _, _)
MatchAt(pat, i, s, pos) ==
    IF i > Len(pat) THEN TRUE
    ELSE LET e == pat[i] IN
         CASE e.k = "b"   -> AtBoundary(s, pos) /\ MatchAt(pat, i + 1, s, pos)
           [] e.k = "lit" -> pos <= Len(s) /\ s[pos] = e.c
                             /\ MatchAt(pat, i + 1, s, pos + 1)
           [] e.k = "set" -> pos <= Len(s) /\ s[pos] \in e.cs
                             /\ MatchAt(pat, i + 1, s, pos + 1)
           [] e.k = "s+"  -> \E n \in 1..(Len(s) - pos + 1) :
                                /\ \A j \in pos..(pos + n - 1) : IsSpace(s[j])
                                /\ MatchAt(pat, i + 1, s, pos + n)

\* re.search(pattern, s) is not None
Search(pat, s) == \E pos \in 1..(Len(s) + 1) : MatchAt(pat, 1, s, pos)


\* ------------------------------------------------------- agent/types.py

RiskLevel == {"low", "medium", "high"}
ALLOW == "allow"
DENY == "deny"
NEEDS_EXTRA_CONFIRMATION == "needs_extra_confirmation"
PolicyStatus == {ALLOW, DENY, NEEDS_EXTRA_CONFIRMATION}

\* dict.get(key, default)
Get(args, key, default) == IF key \in DOMAIN args THEN args[key] ELSE default

\* ------------------------------------------------------ agent/policy.py

\* the segments between the "/" of a path, empty ones included
RECURSIVE SplitSlash(_, _)
SplitSlash(p, cur) ==
    IF p = <<>> THEN <<cur>>
    ELSE IF Head(p) = "/" THEN <<cur>> \o SplitSlash(Tail(p), <<>>)
    ELSE SplitSlash(Tail(p), Append(cur, Head(p)))

\* Path.resolve on segments (no symbolic links): drops "" and ".", and
\* ".." removes the segment before it (and nothing at the anchor)
RECURSIVE Normalize(_, _)
Normalize(segs, acc) ==
    IF segs = <<>> THEN acc
    ELSE LET h == Head(segs) IN
         IF h = <<>> \/ h = <<".">> THEN Normalize(Tail(segs), acc)
         ELSE IF h = <<".", ".">>
              THEN Normalize(Tail(segs),
                             IF acc = <<>> THEN acc ELSE SubSeq(acc, 1, Len(acc) - 1))
              ELSE Normalize(Tail(segs), Append(acc, h))

\* the text of a resolved root: "/" + segments joined by "/"
RECURSIVE JoinSlash(_)
JoinSlash(parts) ==
    IF parts = <<>> THEN <<>>
    ELSE <<"/">> \o Head(parts) \o JoinSlash(Tail(parts))

\* str(self.root_dir) of a resolved root
RootText(root_dir) == IF root_dir = <<>> THEN <<"/">> ELSE JoinSlash(root_dir)

\* os.path.join(str(root_dir), str(path_value)) on POSIX
OsPathJoin(rootText, p) ==
    IF p # <<>> /\ Head(p) = "/" THEN p
    ELSE IF rootText # <<>> /\ rootText[Len(rootText)] = "/" THEN rootText \o p
    ELSE rootText \o <<"/">> \o p

\* Path(text).resolve() of an absolute path text: os.path.realpath walks the
\* segments from "/" again, so a leading "//" does not survive
Resolve(text) == [anchor |-> "/", parts |-> Normalize(SplitSlash(text, <<>>), <<>>)]

M_is_under_root_text_prefix(root_dir, path) ==
    LET r == JoinSlash(root_dir)
        t == JoinSlash(path.parts)
    IN  Len(t) >= Len(r) /\ SubSeq(t, 1, Len(r)) = r

\* PolicyEngine._is_under_root: Path.relative_to(self.root_dir)
_is_under_root(root_dir, path) ==
    /\ path.anchor = "/"
    /\ Len(path.parts) >= Len(root_dir)
    /\ SubSeq(path.parts, 1, Len(root_dir)) = root_dir

\* a variant of the risk branch in which medium risk needs extra confirmation
M_risk_verdict_medium_extra(risk_level) ==
    IF risk_level \in {"medium", "high"} THEN NEEDS_EXTRA_CONFIRMATION ELSE ALLOW

\* the risk branch of evaluate for a proposal that passed validation
RiskVerdict(risk_level) ==
    IF risk_level = "high" THEN NEEDS_EXTRA_CONFIRMATION ELSE ALLOW

M_evaluate_shell_allowlist_wins(eng, p) ==
    LET command == Strip(Get(p.args, "command", <<>>))
        token   == Lower(FirstToken(command))
    IN  IF command = <<>> THEN DENY
        ELSE IF token \in eng.allowed_shell_commands THEN RiskVerdict(p.risk_level)
        ELSE DENY

\* PolicyEngine._evaluate_shell
_evaluate_shell(eng, p) ==
    LET command == Strip(Get(p.args, "command", <<>>))
        token   == Lower(FirstToken(command))
        lowered == Lower(command)
    IN  IF command = <<>> THEN DENY
        ELSE IF token \notin eng.allowed_shell_commands THEN DENY
        ELSE IF \E i \in DOMAIN BLOCKED_SHELL_PATTERNS :
                    Search(BLOCKED_SHELL_PATTERNS[i], lowered)
             THEN DENY
        ELSE RiskVerdict(p.risk_level)

\* PolicyEngine._evaluate_file
_evaluate_file(eng, p) ==
    LET path_value == Get(p.args, "path", <<>>)
    IN  IF "path" \notin DOMAIN p.args \/ path_value = <<>> THEN DENY
        ELSE LET path == Resolve(OsPathJoin(RootText(eng.root_dir), path_value))
             IN  IF ~_is_under_root(eng.root_dir, path) THEN DENY
                 ELSE RiskVerdict(p.risk_level)

\* PolicyEngine.evaluate
evaluate(eng, p) ==
    IF p.tool_name = "shell" THEN _evaluate_shell(eng, p)
    ELSE IF p.tool_name = "file" THEN _evaluate_file(eng, p)
    ELSE IF p.tool_name = "web" THEN RiskVerdict(p.risk_level)
    ELSE DENY


\* ------------------------------------------------ agent/orchestrator.py

\* bounds of the step-loop runs explored
MaxSteps == 2
MaxRetries == 2

\* the PolicyEngine the explored runs are built with: root /w, allowlist {ls, rm}
RunEngine ==
    [root_dir |-> << <<"w">> >>,
     allowed_shell_commands |-> { <<"l","s">>, <<"r","m">> }]

Shell(cmd, risk) ==
    [tool_name |-> "shell", args |-> [command |-> cmd], risk_level |-> risk]
File(path, risk) ==
    [tool_name |-> "file", args |-> [path |-> path], risk_level |-> risk]
Web(risk) ==
    [tool_name |-> "web", args |-> [query |-> <<"q">>], risk_level |-> risk]

\* the proposals the oracle of the explored runs may issue
OracleProposals ==
    { Shell(<<"l","s">>, "low"), Shell(<<"l","s">>, "high"),
      Shell(<<"r","m"," ","-","r","f"," ","/">>, "low"),
      File(<<"a">>, "medium"), File(<<".",".","/","x">>, "low"),
      Web("low"), Web("high") }

\* the AgentDecision values model_client.decide may return; the Optional
\* action is <<>> (None) or <<proposal>>
OracleDecisions ==
    { [kind |-> "final", action |-> <<>>, final_response |-> "done"],
      [kind |-> "final", action |-> <<>>, final_response |-> ""],
      [kind |-> "final", action |-> <<>>, final_response |-> None],
      [kind |-> "action", action |-> <<>>, final_response |-> None] }
    \cup { [kind |-> "action", action |-> <<p>>, final_response |-> None] :
             p \in OracleProposals }

\* no call of ModelClient.decide is followed
NoModelCall ==
    [provider |-> "none", api_key |-> FALSE,
     reply |-> [raises |-> FALSE, text |-> <<>>], ret |-> <<>>]

\* the goal of the sessions of the explored runs
Goals == {"goal"}

\* the lines input_fn may return
Answers ==
    { <<"Y","e","s"," ">>, <<" ","A","D">>, <<>> }

\* the error_type tags of a failed ActionResult
ErrorTypes ==
    { "timeout", "web_error", "shell_error", "exception",
      "invalid_args", "policy_denied", "unknown_tool", None }

\* what _execute_tool may return (a raising tool is caught and tagged "exception")
ToolResults ==
    { [ok |-> TRUE, error_type |-> None] }
    \cup { [ok |-> FALSE, error_type |-> e] : e \in ErrorTypes }

\* before the first decide, the first evaluate and the first _execute_tool
NoDecision == [kind |-> "none", action |-> <<>>, final_response |-> None]
NoProposal == [tool_name |-> "none", args |-> <<>>, risk_level |-> "low"]
NoResult == [ok |-> FALSE, error_type |-> "unset"]

NoFinalResponse == "No final response."
NoPayloadMsg == "Model returned action kind without action payload."
StoppedMsg == "Stopped: reached max_steps."

\* SessionState.add_event's entry: the type and, of the data, what the step
\* loop's control flow put there (the policy status, the result's ok, the key
\* as "ok" or "failed", the key of a denial's payload: "reason" for an
\* always-denied tool, "tool" otherwise)
Event(type, data) == [type |-> type, data |-> data]

\* Orchestrator._json_log: the row is appended, or the write fails and is swallowed
_json_log(rows, row, ok) == IF ok THEN Append(rows, row) ELSE rows

\* a variant of _json_log without the except clause: a failed write raises
\* out of run
M_json_log_raises_on_failure(ok) == ok

\* Orchestrator._json_log, lines 160-164: the call returns to run, whether
\* the write succeeded or the except clause caught its failure
_json_log_returns(ok) == TRUE

M_is_retryable_any(error_type) == TRUE

\* Orchestrator._is_retryable
_is_retryable(error_type) ==
    error_type \in {"timeout", "web_error", "shell_error", "exception"}

\* a variant of _approve that compares the trimmed answer as typed
M_approve_case_sensitive(tool_name, ans, deny) ==
    LET a == Strip(ans)
    IN  IF a = <<"a","d">> THEN <<FALSE, deny \cup {tool_name}>>
        ELSE <<a \in {<<"y">>, <<"y","e","s">>}, deny>>

M_approve_default_yes(tool_name, ans, deny) ==
    LET a == Lower(Strip(ans))
    IN  IF a = <<"a","d">> THEN <<FALSE, deny \cup {tool_name}>>
        ELSE <<a \notin {<<"n">>, <<"n","o">>}, deny>>

\* Orchestrator._approve, after input_fn returned ans: <<approved, always_deny_tools>>
_approve(tool_name, ans, deny) ==
    LET a == Lower(Strip(ans))
    IN  IF a = <<"a","d">> THEN <<FALSE, deny \cup {tool_name}>>
        ELSE <<a \in {<<"y">>, <<"y","e","s">>}, deny>>

M_end_of_iteration_one_more(evs) ==
    IF step <= cfg.max_steps
    THEN /\ pc' = "decide"
         /\ step' = step + 1
         /\ events' = evs
         /\ result' = None
    ELSE /\ pc' = "done"
         /\ step' = step
         /\ events' = Append(evs, Event("stopped", StoppedMsg))
         /\ result' = StoppedMsg

\* a variant of the loop in which a failed tool result ends the run
M_end_of_iteration_failure_ends(evs) ==
    IF step < cfg.max_steps /\ evs[Len(evs)] # Event("tool_result", "failed")
    THEN /\ pc' = "decide"
         /\ step' = step + 1
         /\ events' = evs
         /\ result' = None
    ELSE /\ pc' = "done"
         /\ step' = step
         /\ events' = Append(evs, Event("stopped", StoppedMsg))
         /\ result' = StoppedMsg

\* the end of one iteration of the for loop of run: the next iteration, or
\* the loop is exhausted and run returns the stopped message
EndOfIteration(evs) ==
    IF step < cfg.max_steps
    THEN /\ pc' = "decide"
         /\ step' = step + 1
         /\ events' = evs
         /\ result' = None
    ELSE /\ pc' = "done"
         /\ step' = step
         /\ events' = Append(evs, Event("stopped", StoppedMsg))
         /\ result' = StoppedMsg


M_always_denied_never(tool_name, deny) == FALSE

\* run, line 73: proposal.tool_name in self.always_deny_tools
AlwaysDenied(tool_name, deny) == tool_name \in deny

M_policy_blocks_never(verdict) == FALSE

\* run, line 82: policy_decision.status == PolicyStatus.DENY
PolicyBlocks(verdict) == verdict = DENY

M_needs_extra_high_only(verdict, risk_level, approval_mode) ==
    verdict = NEEDS_EXTRA_CONFIRMATION \/ risk_level = "high"

\* run, lines 90-94: the condition of the second approval
NeedsExtra(verdict, risk_level, approval_mode) ==
    \/ verdict = NEEDS_EXTRA_CONFIRMATION
    \/ risk_level = "high"
    \/ approval_mode = "strict"

M_should_retry_off_by_one(res, n, max_retries) ==
    (~res.ok) /\ n <= max_retries /\ _is_retryable(res.error_type)

\* _execute_with_retries, line 127: the condition of the while loop
ShouldRetry(res, n, max_retries) ==
    (~res.ok) /\ n < max_retries /\ _is_retryable(res.error_type)

policy_vars == <<engine, pol_proposal, pol_decision>>
loop_vars == <<pc, cfg, goal, oracle, step, decision, policy_status, always_deny_tools, retries,
               last, messages, events, jsonl, log_ok, result>>
call_vars == <<asked, attempts, executed, oracle_calls, evaluated>>
mgr_vars == <<runs, request, status, final_text, error, session, pending,
              approval_answer, run_events, wpc, wstep, wcall, wresult, gate_ret,
              next_request, approve_calls, api_ret>>
lock_vars == <<lock_owner, caller>>
vars == <<policy_vars, loop_vars, call_vars, mgr_vars, lock_vars>>

M_final_text_as_given(final_response) == final_response

\* run, line 62: decision.final_response or "No final response."
FinalText(final_response) ==
    IF final_response \in {None, ""} THEN NoFinalResponse ELSE final_response

\* run, line 51, up to the first call of model_client.decide
RunStart ==
    /\ pc = "start"
    /\ messages' = Append(messages, [role |-> "user", content |-> goal])
    /\ IF cfg.max_steps >= 1
       THEN pc' = "decide" /\ step' = 1 /\ events' = events /\ result' = None
       ELSE /\ pc' = "done"
            /\ step' = 0
            /\ events' = Append(events, Event("stopped", StoppedMsg))
            /\ result' = StoppedMsg
    /\ UNCHANGED <<lock_vars, policy_vars, mgr_vars, goal, oracle, cfg, decision, policy_status, always_deny_tools,
                   retries, last, jsonl, log_ok, call_vars>>

\* a variant of the abort that records no error event
M_protocol_violation_unrecorded(evs) == evs

\* a variant of the abort that leaves the error event as the only event
M_protocol_violation_clears(evs) == <<Event("error", NoPayloadMsg)>>

\* run, lines 68-70: the error event of an action decision without payload
ProtocolViolation(evs) == Append(evs, Event("error", NoPayloadMsg))

\* run, lines 53-85 apart from the rows of the log: model_client.decide
\* returned d; up to the return of run, the next call of decide, or the call
\* of input_fn for the first approval
DecideControl(d) ==
    /\ pc = "decide"
    /\ oracle_calls' = oracle_calls + 1
    /\ decision' = d
    /\ asked' = <<>>
    /\ attempts' = 0
    /\ LET ev1 == Append(events, Event("model_metrics", None))
       IN  IF d.kind = "final"
           THEN LET text == FinalText(d.final_response)
                IN  /\ messages' = Append(messages,
                                          [role |-> "assistant", content |-> text])
                    /\ events' = ev1
                    /\ result' = text
                    /\ pc' = "done"
                    /\ evaluated' = FALSE
                    /\ UNCHANGED <<step, policy_status>>
           ELSE IF d.action = <<>>
           THEN /\ events' = ProtocolViolation(ev1)
                /\ result' = NoPayloadMsg
                /\ pc' = "done"
                /\ evaluated' = FALSE
                /\ UNCHANGED <<step, policy_status, messages>>
           ELSE IF AlwaysDenied(d.action[1].tool_name, always_deny_tools)
           THEN /\ EndOfIteration(Append(ev1, Event("approval_denied", "reason")))
                /\ evaluated' = FALSE
                /\ UNCHANGED <<policy_status, messages>>
           ELSE LET ps  == evaluate(engine, d.action[1])
                    ev2 == Append(ev1, Event("policy", ps))
                IN  /\ policy_status' = ps
                    /\ evaluated' = TRUE
                    /\ IF PolicyBlocks(ps)
                       THEN EndOfIteration(ev2)
                       ELSE /\ pc' = "ask_initial"
                            /\ events' = ev2
                            /\ UNCHANGED <<step, result>>
                    /\ UNCHANGED messages
    /\ UNCHANGED <<lock_vars, policy_vars, mgr_vars, goal, oracle, cfg, always_deny_tools, retries, last, log_ok, executed>>

\* run, lines 64, 76 and 81: the type of the row the step writes after its
\* model_metrics row, if it writes one
DecideRow(d) ==
    IF d.kind = "final" THEN <<"final">>
    ELSE IF d.action = <<>> THEN <<>>
    ELSE IF AlwaysDenied(d.action[1].tool_name, always_deny_tools)
    THEN <<"approval_denied">>
    ELSE <<"policy">>

\* run, lines 53-85, with the calls of _json_log (lines 59, 64, 76, 81), whose
\* writes succeed (ok1, ok2) or fail
Decide(d, ok1, ok2) ==
    /\ DecideControl(d)
    /\ _json_log_returns(ok1)
    /\ LET log1 == _json_log(jsonl, [step |-> step, type |-> "model_metrics"], ok1)
           row  == DecideRow(d)
       IN  IF row = <<>>
           THEN jsonl' = log1
           ELSE /\ _json_log_returns(ok2)
                /\ jsonl' = _json_log(log1, [step |-> step, type |-> row[1]], ok2)

\* _execute_with_retries, line 125: the first call of _execute_tool
BeginExecute ==
    /\ pc' = "exec"
    /\ retries' = 0
    /\ attempts' = attempts + 1
    /\ executed' = executed + 1
    /\ UNCHANGED <<step, events, result, last>>

\* run, lines 85-108 apart from the rows of the log: input_fn returned ans to
\* the first _approve of the step
AnswerInitialControl(ans) ==
    /\ pc = "ask_initial"
    /\ LET p == decision.action[1]
           r == _approve(p.tool_name, ans, always_deny_tools)
       IN  /\ asked' = Append(asked, [stage |-> "initial", ans |-> ans])
           /\ always_deny_tools' = r[2]
           /\ IF ~r[1]
              THEN /\ EndOfIteration(Append(events, Event("approval_denied", "tool")))
                   /\ UNCHANGED <<retries, last, attempts, executed>>
              ELSE IF NeedsExtra(policy_status, p.risk_level, cfg.approval_mode)
              THEN /\ pc' = "ask_extra"
                   /\ UNCHANGED <<step, events, result, retries, last,
                                  attempts, executed>>
              ELSE BeginExecute
    /\ UNCHANGED <<lock_vars, policy_vars, mgr_vars, goal, oracle, cfg, decision, policy_status, messages, log_ok,
                   oracle_calls, evaluated>>

\* run, lines 85-108, with the call of _json_log of a denial (line 87)
AnswerInitial(ans, ok) ==
    /\ AnswerInitialControl(ans)
    /\ IF ~_approve(decision.action[1].tool_name, ans, always_deny_tools)[1]
       THEN /\ _json_log_returns(ok)
            /\ jsonl' = _json_log(jsonl, [step |-> step, type |-> "approval_denied"], ok)
       ELSE UNCHANGED jsonl

\* a variant of the second approval in which 'ad' denies the step but is
\* not remembered
M_answer_extra_forgets_ad(ans) ==
    /\ pc = "ask_extra"
    /\ LET p == decision.action[1]
           r == _approve(p.tool_name, ans, always_deny_tools)
       IN  /\ asked' = Append(asked, [stage |-> "extra", ans |-> ans])
           /\ always_deny_tools' = always_deny_tools
           /\ IF ~r[1]
              THEN /\ EndOfIteration(Append(events, Event("approval_denied_extra", "tool")))
                   /\ UNCHANGED <<retries, last, attempts, executed>>
              ELSE BeginExecute
    /\ UNCHANGED <<lock_vars, policy_vars, mgr_vars, goal, oracle, cfg, decision, policy_status, messages, log_ok,
                   oracle_calls, evaluated>>

\* run, lines 95-108 apart from the rows of the log: input_fn returned ans to
\* the second _approve of the step
AnswerExtraControl(ans) ==
    /\ pc = "ask_extra"
    /\ LET p == decision.action[1]
           r == _approve(p.tool_name, ans, always_deny_tools)
       IN  /\ asked' = Append(asked, [stage |-> "extra", ans |-> ans])
           /\ always_deny_tools' = r[2]
           /\ IF ~r[1]
              THEN /\ EndOfIteration(Append(events, Event("approval_denied_extra", "tool")))
                   /\ UNCHANGED <<retries, last, attempts, executed>>
              ELSE BeginExecute
    /\ UNCHANGED <<lock_vars, policy_vars, mgr_vars, goal, oracle, cfg, decision, policy_status, messages, log_ok,
                   oracle_calls, evaluated>>

\* run, lines 95-108, with the call of _json_log of a denial (lines 102-105)
AnswerExtra(ans, ok) ==
    /\ AnswerExtraControl(ans)
    /\ IF ~_approve(decision.action[1].tool_name, ans, always_deny_tools)[1]
       THEN /\ _json_log_returns(ok)
            /\ jsonl' = _json_log(jsonl,
                                  [step |-> step, type |-> "approval_denied_extra"], ok)
       ELSE UNCHANGED jsonl

\* _execute_with_retries, lines 125-130, and run, lines 108-109: _execute_tool
\* returned res; it is called again, or the result is recorded and the step ends
ToolReturnControl(res) ==
    /\ pc = "exec"
    /\ IF ShouldRetry(res, retries, cfg.max_retries)
       THEN /\ last' = res
            /\ retries' = retries + 1
            /\ attempts' = attempts + 1
            /\ executed' = executed + 1
            /\ UNCHANGED <<pc, step, events, result>>
       ELSE /\ last' = NoResult
            /\ retries' = 0
            /\ EndOfIteration(Append(events,
                   Event("tool_result", IF res.ok THEN "ok" ELSE "failed")))
            /\ UNCHANGED <<attempts, executed>>
    /\ UNCHANGED <<lock_vars, policy_vars, mgr_vars, goal, oracle, cfg, decision, policy_status, always_deny_tools,
                   messages, log_ok, asked, oracle_calls, evaluated>>

\* _execute_with_retries and run, lines 108-118, with the call of _json_log
\* of the recorded result (lines 110-118)
ToolReturn(res, ok) ==
    /\ ToolReturnControl(res)
    /\ IF ShouldRetry(res, retries, cfg.max_retries)
       THEN UNCHANGED jsonl
       ELSE /\ _json_log_returns(ok)
            /\ jsonl' = _json_log(jsonl, [step |-> step, type |-> "tool_result"], ok)

\* bounds of the managed runs explored
MaxManagedSteps == 1
MaxApproveCalls == 2

\* the run ids create_run hands out (uuid4().hex at line 73): two runs, so
\* that every call on one run is also made while another run exists
RunIds == {1, 2}

\* uuid4().hex at line 180: the k-th request of run r gets an id no other
\* request has
RequestId(r, k) == (k - 1) * Cardinality(RunIds) + r
RequestIds == 1..(2 * MaxManagedSteps * Cardinality(RunIds))

\* the request ids a caller of approve tries on run r: the id of r's latest
\* request (the pending one, if one is pending), the one before it, the one r
\* issues next, and the latest id of every other run
ApproveIds(r) ==
    { RequestId(r, k) : k \in ((next_request[r] - 2)..next_request[r])
                               \cap (1..(2 * MaxManagedSteps)) }
    \cup { RequestId(x, next_request[x] - 1) :
              x \in { y \in RunIds \ {r} : next_request[y] > 1 } }

\* the request-handling threads (the server runs the handlers of app.py on
\* several threads) and the worker thread of each run (line 77)
Callers == {"c1", "c2"}
Worker(r) == IF r = 1 THEN "w1" ELSE "w2"
Contexts == Callers \cup { Worker(r) : r \in RunIds }

\* the locks: RunManager._runs_lock (line 70) and the RunState.lock of each
\* run (line 61), named by the run id
RegistryLock == 0
Locks == {RegistryLock} \cup RunIds
Free == "free"

\* the locks a thread holds
Held(c) == { l \in Locks : lock_owner[l] = c }

\* a request-handling thread that serves no call
IdleCaller == [pc |-> "idle", op |-> "none", run |-> 0, q |-> 0]

\* no approve, snapshot or events call returned in the last step
NoApiRet ==
    [op |-> "none", run_id |-> 0, request_id |-> 0, ret |-> "none",
     status |-> "", pending |-> <<>>, events |-> <<>>]

\* RunManager.__init__: no run is registered; the fields of the RunStates to
\* come hold the defaults of the dataclass
NoRuns ==
    /\ runs = {}
    /\ request = [r \in RunIds |-> [max_steps |-> 1]]
    /\ status = [r \in RunIds |-> "running"]
    /\ final_text = [r \in RunIds |-> ""]
    /\ error = [r \in RunIds |-> ""]
    /\ session = [r \in RunIds |-> None]
    /\ pending = [r \in RunIds |-> <<>>]
    /\ approval_answer = [r \in RunIds |-> <<>>]
    /\ run_events = [r \in RunIds |-> <<>>]
    /\ wpc = [r \in RunIds |-> "none"]
    /\ wstep = [r \in RunIds |-> 0]
    /\ wcall = [r \in RunIds |-> [tool |-> "none", stage |-> "none"]]
    /\ wresult = [r \in RunIds |-> ""]
    /\ gate_ret = [r \in RunIds |-> <<>>]
    /\ next_request = [r \in RunIds |-> 1]
    /\ approve_calls = 0
    /\ api_ret = NoApiRet
    /\ lock_owner = [l \in Locks |-> Free]
    /\ caller = [c \in Callers |-> IdleCaller]

\* the state after Orchestrator.__init__, SessionState(goal, cwd) and RunConfig(...)
Init ==
    /\ engine = RunEngine
    /\ pol_proposal = NoProposal
    /\ pol_decision = None
    /\ pc = "start"
    /\ goal \in Goals
    /\ oracle = NoModelCall
    /\ cfg \in [max_steps : 0..MaxSteps, approval_mode : {"normal", "strict"},
                max_retries : 0..MaxRetries]
    /\ step = 0
    /\ decision = NoDecision
    /\ policy_status = None
    /\ always_deny_tools = {}
    /\ retries = 0
    /\ last = NoResult
    /\ messages = <<>>
    /\ events = <<>>
    /\ jsonl = <<>>
    /\ log_ok \in BOOLEAN
    /\ result = None
    /\ asked = <<>>
    /\ attempts = 0
    /\ executed = 0
    /\ oracle_calls = 0
    /\ evaluated = FALSE
    /\ NoRuns

Next ==
    \/ RunStart
    \/ \E d \in OracleDecisions : Decide(d, log_ok, log_ok)
    \/ \E ans \in Answers : AnswerInitial(ans, log_ok)
    \/ \E ans \in Answers : AnswerExtra(ans, log_ok)
    \/ \E res \in ToolResults : ToolReturn(res, log_ok)

Spec == Init /\ [][Next]_vars


\* ---------------------------------------------------------------------
\* Properties of the step loop (specification Spec)

\* an answer that approves: 'y' or 'yes' once trimmed and lowercased
IsYes(ans) == Lower(Strip(ans)) \in { <<"y">>, <<"y","e","s">> }
\* the always-deny answer: 'ad' once trimmed and lowercased
IsAlwaysDeny(ans) == Lower(Strip(ans)) = <<"a","d">>

\* the current step has a proposal (asked, attempts, evaluated describe the
\* current step, or the step just finished while run waits for the oracle)
HasProposal == decision.kind = "action" /\ decision.action # <<>>
CurTool == decision.action[1].tool_name
CurRisk == decision.action[1].risk_level
StepOver == pc \in {"decide", "done"}
Executing == attempts > 0 \/ pc = "exec"

\* session.events without the stopped event that ends an exhausted run
StepEvents ==
    IF events # <<>> /\ events[Len(events)].type = "stopped"
    THEN SubSeq(events, 1, Len(events) - 1) ELSE events
LastStepEvent == StepEvents[Len(StepEvents)]

\* C1: a tool is executed in a step only if the initial approval request of
\* that step was answered y/yes; every proposal the policy does not deny gets
\* an approval request before any execution; a negative initial answer ends
\* the step with no execution.
Thm_C1_ExecutionNeedsInitialYes ==
    /\ Executing =>
          asked # <<>> /\ asked[1].stage = "initial" /\ IsYes(asked[1].ans)
    /\ (asked # <<>> /\ ~IsYes(asked[1].ans)) =>
          attempts = 0 /\ Len(asked) = 1 /\ StepOver
    /\ (evaluated /\ policy_status # DENY) =>
          \/ pc = "ask_initial" /\ asked = <<>> /\ attempts = 0
          \/ asked # <<>> /\ asked[1].stage = "initial"

Wit_C1_LowRiskExecutedAfterYes ==
    /\ pc = "exec" /\ attempts = 1 /\ CurRisk = "low"
    /\ Len(asked) = 1 /\ IsYes(asked[1].ans)

\* C5: an 'ad' answer for tool X denies the step and puts X in the
\* always-deny set, which never shrinks during the run; a later step that
\* proposes X is denied with a denial event, with no policy evaluation, no
\* approval request and no execution.
Thm_C5_AlwaysDenySticks ==
    /\ [](\A i \in DOMAIN asked :
            IsAlwaysDeny(asked[i].ans) =>
               /\ CurTool \in always_deny_tools
               /\ i = Len(asked) /\ attempts = 0 /\ StepOver
               /\ LastStepEvent.type \in {"approval_denied", "approval_denied_extra"})
    /\ []((/\ HasProposal
           /\ CurTool \in always_deny_tools
           /\ \A i \in DOMAIN asked : ~IsAlwaysDeny(asked[i].ans)) =>
               /\ ~evaluated /\ asked = <<>> /\ attempts = 0 /\ StepOver
               /\ LastStepEvent = Event("approval_denied", "reason"))
    /\ [][always_deny_tools \subseteq always_deny_tools']_vars

Wit_C5_LaterStepDenied ==
    /\ HasProposal /\ CurTool \in always_deny_tools
    /\ asked = <<>> /\ ~evaluated /\ oracle_calls >= 2 /\ StepOver

\* the error tags after which a failed call is re-executed
RetryableTags == {"timeout", "web_error", "shell_error", "exception"}

\* C6: the re-executions of one tool call never exceed max_retries; a call is
\* re-executed only after a failed result whose tag is retryable (so a success
\* or a non-retryable failure is the last attempt).
Thm_C6_RetriesBounded ==
    /\ attempts <= 1 + cfg.max_retries
    /\ retries <= cfg.max_retries
    /\ pc = "exec" => attempts = retries + 1
    /\ (pc = "exec" /\ attempts > 1) =>
          ~last.ok /\ last.error_type \in RetryableTags

Wit_C6_BudgetUsedUp ==
    /\ StepOver /\ attempts >= 2 /\ attempts = 1 + cfg.max_retries
    /\ LastStepEvent = Event("tool_result", "failed")

\* the condition under which a step needs the second approval
ExtraRequired ==
    \/ policy_status = NEEDS_EXTRA_CONFIRMATION
    \/ CurRisk = "high"
    \/ cfg.approval_mode = "strict"

\* C7: when the verdict is needs_extra_confirmation, the risk is high or the
\* mode is strict, the tool is executed only after two approving answers
\* (initial, then extra), and a negative extra answer ends the step with no
\* execution; otherwise exactly one approval is requested.
Thm_C7_ExtraConfirmation ==
    (evaluated /\ policy_status # DENY) =>
        IF ExtraRequired
        THEN /\ Len(asked) <= 2
             /\ Executing =>
                   /\ Len(asked) = 2
                   /\ asked[1].stage = "initial" /\ IsYes(asked[1].ans)
                   /\ asked[2].stage = "extra" /\ IsYes(asked[2].ans)
             /\ (Len(asked) = 2 /\ ~IsYes(asked[2].ans)) =>
                   /\ attempts = 0 /\ StepOver
                   /\ LastStepEvent.type = "approval_denied_extra"
             /\ (Len(asked) = 1 /\ IsYes(asked[1].ans)) => pc = "ask_extra"
        ELSE /\ pc # "ask_extra"
             /\ IF pc = "ask_initial" THEN asked = <<>>
                ELSE Len(asked) = 1 /\ asked[1].stage = "initial"

Wit_C7_StrictModeTwoApprovals ==
    /\ pc = "exec" /\ Len(asked) = 2 /\ cfg.approval_mode = "strict"
    /\ CurRisk = "low" /\ policy_status = ALLOW

\* C8: a step whose proposal the policy denies records the verdict, asks for
\* no approval, executes nothing, and the loop goes on to the next step (the
\* run ends there only when the step budget is used up).
Thm_C8_PolicyDenialSkipsStep ==
    (evaluated /\ policy_status = DENY) =>
        /\ asked = <<>> /\ attempts = 0 /\ StepOver
        /\ LastStepEvent = Event("policy", DENY)
        /\ IF oracle_calls < cfg.max_steps
           THEN pc = "decide" /\ step = oracle_calls + 1 /\ result = None
           ELSE pc = "done" /\ result = StoppedMsg

Wit_C8_DeniedThenNextStep ==
    /\ evaluated /\ policy_status = DENY /\ pc = "decide"
    /\ HasProposal /\ CurTool = "shell" /\ executed = 0


\* ---------------------------------------------------------------------
\* The policy engine on its own (specification SpecPolicy): evaluate is a
\* pure function of the engine's configuration and the proposal

\* bounds of the commands and paths explored
MaxPieces == 3
MaxPathLen == 4

\* the pieces commands are put together from
CommandPieces ==
    { <<"r","m">>, <<"R","m">>, <<"l","s">>, <<" ">>, <<"\t">>, <<"-","r","f">>,
      <<"x">>, <<"/">>, <<"/","q">>, <<"d","e","l">>, <<"f","o","r","m","a","t">>,
      <<"R","e","b","o","o","t">> }

\* every concatenation of at most n pieces
RECURSIVE Commands(_)
Commands(n) ==
    IF n = 0 THEN { <<>> }
    ELSE LET shorter == Commands(n - 1)
         IN  shorter \cup { c \o q : c \in shorter, q \in CommandPieces }

PathChars == {"/", ".", "a", "b"}

\* every text of at most n path characters
RECURSIVE Paths(_)
Paths(n) ==
    IF n = 0 THEN { <<>> }
    ELSE LET shorter == Paths(n - 1)
         IN  shorter \cup { Append(t, c) : t \in shorter, c \in PathChars }

\* PolicyEngine(root_dir, allowed_shell_commands): the root resolved to its
\* segments (/a and /a/b), the allowlist as configured (entries are kept as
\* written in the configuration file)
PolicyEngines ==
    [root_dir : { << <<"a">> >>, << <<"a">>, <<"b">> >> },
     allowed_shell_commands :
        { { <<"l","s">> },
          { <<"L","s">>, <<"x">> },
          { <<"l","s">>, <<"r","m">>, <<"d","e","l">>, <<"x">>,
            <<"f","o","r","m","a","t">>, <<"r","e","b","o","o","t">> } }]

\* the configuration an evaluation depends on: the allowlist for a shell
\* proposal, the root directory for a file proposal
EnginesFor(p) ==
    IF p.tool_name = "shell"
    THEN { e \in PolicyEngines : e.root_dir = << <<"a">> >> }
    ELSE { e \in PolicyEngines : e.allowed_shell_commands = { <<"l","s">> } }

\* the proposals handed to evaluate (args with and without the key read)
PolicyProposals ==
    { Shell(c, r) : c \in Commands(MaxPieces), r \in RiskLevel }
    \cup { File(t, r) : t \in Paths(MaxPathLen), r \in RiskLevel }
    \cup { [tool_name |-> t, args |-> <<>>, risk_level |-> r] :
             t \in {"shell", "file", "web", "other"}, r \in RiskLevel }
    \cup { Web(r) : r \in RiskLevel }

\* the step loop is not running
LoopIdle ==
    /\ pc = "idle"
    /\ goal = None
    /\ cfg = [max_steps |-> 0, approval_mode |-> "normal", max_retries |-> 0]
    /\ step = 0
    /\ decision = NoDecision
    /\ policy_status = None
    /\ always_deny_tools = {}
    /\ retries = 0
    /\ last = NoResult
    /\ messages = <<>>
    /\ events = <<>>
    /\ jsonl = <<>>
    /\ log_ok = TRUE
    /\ result = None
    /\ asked = <<>>
    /\ attempts = 0
    /\ executed = 0
    /\ oracle_calls = 0
    /\ evaluated = FALSE

InitPolicy ==
    /\ pol_proposal \in PolicyProposals
    /\ engine \in EnginesFor(pol_proposal)
    /\ pol_decision = None
    /\ LoopIdle
    /\ oracle = NoModelCall
    /\ NoRuns

\* decision = engine.evaluate(proposal)
PolicyEvaluate ==
    /\ pol_decision = None
    /\ pol_decision' = evaluate(engine, pol_proposal)
    /\ UNCHANGED <<lock_vars, engine, pol_proposal, loop_vars, call_vars, mgr_vars>>

NextPolicy == PolicyEvaluate

SpecPolicy == InitPolicy /\ [][NextPolicy]_vars

\* the command of a shell proposal, as text
CommandOf(p) == Get(p.args, "command", <<>>)

\* a command that matches a destructive-pattern signature, letter case ignored
Destructive(command) ==
    \E i \in DOMAIN BLOCKED_SHELL_PATTERNS :
        Search(BLOCKED_SHELL_PATTERNS[i], Lower(command))

\* C9: evaluate returns deny for every shell proposal whose command matches a
\* destructive-pattern signature, whatever the allowlist and the risk level.
Thm_C9_DestructiveShellDenied ==
    (/\ pol_decision # None
     /\ pol_proposal.tool_name = "shell"
     /\ Destructive(CommandOf(pol_proposal))) => pol_decision = DENY

Wit_C9_AllowlistedDestructive ==
    /\ pol_decision = DENY
    /\ pol_proposal.tool_name = "shell"
    /\ pol_proposal.risk_level = "low"
    /\ CommandOf(pol_proposal) = <<"R","m"," ","-","r","f">>
    /\ <<"r","m">> \in engine.allowed_shell_commands

\* the segments a path text names, read right to left: a ".." cancels the
\* nearest segment to its left, "." and empty segments name nothing
RECURSIVE KeptSegments(_, _)
KeptSegments(segs, skip) ==
    IF segs = <<>> THEN <<>>
    ELSE LET h    == segs[Len(segs)]
             rest == SubSeq(segs, 1, Len(segs) - 1)
         IN  IF h = <<>> \/ h = <<".">> THEN KeptSegments(rest, skip)
             ELSE IF h = <<".", ".">> THEN KeptSegments(rest, skip + 1)
             ELSE IF skip > 0 THEN KeptSegments(rest, skip - 1)
             ELSE Append(KeptSegments(rest, skip), h)

\* where a path argument leads, from the root directory: an absolute
\* argument replaces the root
LeadsTo(root_dir, path_value) ==
    KeptSegments((IF Head(path_value) = "/" THEN <<>> ELSE root_dir)
                    \o SplitSlash(path_value, <<>>), 0)

\* the root or a descendant of it
WithinRoot(root_dir, parts) ==
    /\ Len(parts) >= Len(root_dir)
    /\ \A i \in DOMAIN root_dir : parts[i] = root_dir[i]

\* C10: evaluate returns deny for every file proposal whose path is missing
\* or empty, or leads outside the root directory, whatever the risk level.
Thm_C10_OutsideRootDenied ==
    (/\ pol_decision # None
     /\ pol_proposal.tool_name = "file"
     /\ \/ "path" \notin DOMAIN pol_proposal.args
        \/ pol_proposal.args.path = <<>>
        \/ ~WithinRoot(engine.root_dir, LeadsTo(engine.root_dir, pol_proposal.args.path)))
    => pol_decision = DENY

Wit_C10_ParentTraversalDenied ==
    /\ pol_decision = DENY
    /\ pol_proposal.tool_name = "file"
    /\ pol_proposal.risk_level = "low"
    /\ "path" \in DOMAIN pol_proposal.args
    /\ pol_proposal.args.path = <<".", ".", "/", "b">>
    /\ engine.root_dir = << <<"a">> >>


\* ---------------------------------------------------------------------
\* The run manager (specification SpecManager): runs, their worker threads
\* and the approval handshake.  Every action is one critical section of the
\* RunState's lock (or of the registry lock), so every state is one that
\* snapshot, events or approve can observe.

\* the decisions a caller may submit to approve: an approving one that
\* approve has to trim and lowercase, and an empty one
Decisions == { <<" ","Y">>, <<>> }

\* the tools and stages of the approval requests of the explored runs
GateTools == {"shell"}
GateStages == {"initial", "extra"}

RunEvent(type, data) == [type |-> type, data |-> data]

\* RunManager.create_run: a fresh run id, a RunState with the dataclass
\* defaults registered under it, and the worker thread started
create_run(req) ==
    /\ Cardinality(runs) < Cardinality(RunIds)
    /\ LET run_id == Cardinality(runs) + 1
       IN  /\ runs' = runs \cup {run_id}
           /\ request' = [request EXCEPT ![run_id] = req]
           /\ wpc' = [wpc EXCEPT ![run_id] = "setup"]
    /\ UNCHANGED <<status, final_text, error, session, pending, approval_answer,
                   run_events, wstep, wcall, gate_ret, next_request, approve_calls>>
    /\ api_ret' = NoApiRet
    /\ UNCHANGED <<lock_vars, policy_vars, loop_vars, call_vars, wresult>>

\* _run_worker, lines 122-143: the configuration is read and the session is
\* stored under the lock
_run_worker_setup(r) ==
    /\ r \in runs /\ wpc[r] = "setup"
    /\ session' = [session EXCEPT ![r] = "goal"]
    /\ wpc' = [wpc EXCEPT ![r] = "construct"]
    /\ UNCHANGED <<runs, request, status, final_text, error, pending,
                   approval_answer, run_events, wstep, wcall, gate_ret,
                   next_request, approve_calls>>
    /\ api_ret' = NoApiRet
    /\ UNCHANGED <<lock_vars, policy_vars, loop_vars, call_vars, wresult>>

\* _run_worker, lines 145-166: the model client, the policy engine, the tools
\* and the run configuration are constructed and the step loop is entered
_run_worker_construct(r) ==
    /\ r \in runs /\ wpc[r] = "construct"
    /\ wpc' = [wpc EXCEPT ![r] = "oracle"]
    /\ wstep' = [wstep EXCEPT ![r] = 1]
    /\ UNCHANGED <<runs, request, status, final_text, error, session, pending,
                   approval_answer, run_events, wcall, gate_ret, next_request,
                   approve_calls>>
    /\ api_ret' = NoApiRet
    /\ UNCHANGED <<lock_vars, policy_vars, loop_vars, call_vars, wresult>>

M_run_worker_completed_without_text(r) ==
    /\ r \in runs /\ wpc[r] = "ret"
    /\ status' = [status EXCEPT ![r] = "completed"]
    /\ run_events' = [run_events EXCEPT ![r] =
                         Append(@, RunEvent("completed", wresult[r]))]
    /\ pending' = [pending EXCEPT ![r] = <<>>]
    /\ wpc' = [wpc EXCEPT ![r] = "done"]
    /\ UNCHANGED <<runs, request, final_text, error, session, approval_answer, wstep,
                   wcall, gate_ret, next_request, approve_calls>>
    /\ api_ret' = NoApiRet
    /\ UNCHANGED <<lock_vars, policy_vars, loop_vars, call_vars, wresult>>

\* _run_worker, lines 167-171: orchestrator.run returned final
_run_worker_completed(r) ==
    /\ r \in runs /\ wpc[r] = "ret"
    /\ final_text' = [final_text EXCEPT ![r] = wresult[r]]
    /\ status' = [status EXCEPT ![r] = "completed"]
    /\ run_events' = [run_events EXCEPT ![r] =
                         Append(@, RunEvent("completed", wresult[r]))]
    /\ pending' = [pending EXCEPT ![r] = <<>>]
    /\ wpc' = [wpc EXCEPT ![r] = "done"]
    /\ UNCHANGED <<runs, request, error, session, approval_answer, wstep, wcall,
                   gate_ret, next_request, approve_calls>>
    /\ api_ret' = NoApiRet
    /\ UNCHANGED <<lock_vars, policy_vars, loop_vars, call_vars, wresult>>

M_run_worker_failed_fails_every_run(r) ==
    /\ r \in runs /\ wpc[r] \in {"setup", "construct", "oracle", "returned"}
    /\ status' = [x \in RunIds |-> IF x \in runs THEN "failed" ELSE status[x]]
    /\ error' = [error EXCEPT ![r] = "exc"]
    /\ run_events' = [run_events EXCEPT ![r] = Append(@, RunEvent("failed", "exc"))]
    /\ wpc' = [wpc EXCEPT ![r] = "done"]
    /\ UNCHANGED <<runs, request, final_text, session, pending, approval_answer,
                   wstep, wcall, gate_ret, next_request, approve_calls>>
    /\ api_ret' = NoApiRet
    /\ UNCHANGED <<lock_vars, policy_vars, loop_vars, call_vars, wresult>>

\* _run_worker, lines 172-176: an exception reached the worker boundary,
\* raised while the run was prepared (lines 123-159, e.g. ModelClient for an
\* unsupported provider) or by orchestrator.run
_run_worker_failed(r) ==
    /\ r \in runs /\ wpc[r] \in {"setup", "construct", "oracle", "returned"}
    /\ status' = [status EXCEPT ![r] = "failed"]
    /\ error' = [error EXCEPT ![r] = "exc"]
    /\ run_events' = [run_events EXCEPT ![r] = Append(@, RunEvent("failed", "exc"))]
    /\ wpc' = [wpc EXCEPT ![r] = "done"]
    /\ UNCHANGED <<runs, request, final_text, session, pending, approval_answer,
                   wstep, wcall, gate_ret, next_request, approve_calls>>
    /\ api_ret' = NoApiRet
    /\ UNCHANGED <<lock_vars, policy_vars, loop_vars, call_vars, wresult>>

M_wait_for_approval_request_keeps_answer(r, tool, reason, stage) ==
    LET req == [request_id |-> RequestId(r, next_request[r]), tool_name |-> tool,
                reason |-> reason, args |-> "args", stage |-> stage]
    IN  /\ pending' = [pending EXCEPT ![r] = <<req>>]
        /\ approval_answer' = approval_answer
        /\ status' = [status EXCEPT ![r] = "waiting_approval"]
        /\ run_events' = [run_events EXCEPT ![r] =
                             Append(@, RunEvent("approval_requested", req.request_id))]
        /\ next_request' = [next_request EXCEPT ![r] = @ + 1]
        /\ wpc' = [wpc EXCEPT ![r] = "waiting"]

\* _wait_for_approval, lines 179-192: the request is registered under the
\* lock and the worker waits on the condition (the lock is released)
_wait_for_approval_request(r, tool, reason, stage) ==
    LET req == [request_id |-> RequestId(r, next_request[r]), tool_name |-> tool,
                reason |-> reason, args |-> "args", stage |-> stage]
    IN  /\ pending' = [pending EXCEPT ![r] = <<req>>]
        /\ approval_answer' = [approval_answer EXCEPT ![r] = <<>>]
        /\ status' = [status EXCEPT ![r] = "waiting_approval"]
        /\ run_events' = [run_events EXCEPT ![r] =
                             Append(@, RunEvent("approval_requested", req.request_id))]
        /\ next_request' = [next_request EXCEPT ![r] = @ + 1]
        /\ wpc' = [wpc EXCEPT ![r] = "waiting"]

M_wait_for_approval_timeout_keeps_status(r) ==
    /\ r \in runs /\ wpc[r] = "waiting"
    /\ approval_answer[r] = <<>>
    /\ run_events' = [run_events EXCEPT ![r] =
                         Append(@, RunEvent("approval_timeout", pending[r][1].request_id))]
    /\ pending' = [pending EXCEPT ![r] = <<>>]
    /\ gate_ret' = [gate_ret EXCEPT ![r] = << <<"n">> >>]
    /\ wpc' = [wpc EXCEPT ![r] = "returned"]
    /\ UNCHANGED <<runs, request, status, final_text, error, session,
                   approval_answer, wstep, wcall, next_request, approve_calls>>
    /\ api_ret' = NoApiRet
    /\ UNCHANGED <<lock_vars, policy_vars, loop_vars, call_vars, wresult>>

\* a variant of the wait that reports the timeout although an answer was
\* deposited meanwhile
M_wait_for_approval_timeout_ignores_answer(r) ==
    /\ r \in runs /\ wpc[r] = "waiting"
    /\ run_events' = [run_events EXCEPT ![r] =
                         Append(@, RunEvent("approval_timeout", pending[r][1].request_id))]
    /\ pending' = [pending EXCEPT ![r] = <<>>]
    /\ status' = [status EXCEPT ![r] = "running"]
    /\ gate_ret' = [gate_ret EXCEPT ![r] = << <<"n">> >>]
    /\ wpc' = [wpc EXCEPT ![r] = "returned"]
    /\ UNCHANGED <<runs, request, final_text, error, session, approval_answer,
                   wstep, wcall, next_request, approve_calls>>
    /\ api_ret' = NoApiRet
    /\ UNCHANGED <<lock_vars, policy_vars, loop_vars, call_vars, wresult>>

M_wait_for_approval_without_timeout(r) ==
    /\ r \in runs /\ wpc[r] = "waiting"
    /\ FALSE
    /\ UNCHANGED vars

\* _wait_for_approval, lines 192-197: the timeout elapsed and no answer was
\* deposited (wait_for returns the predicate's value, False)
_wait_for_approval_timeout(r) ==
    /\ r \in runs /\ wpc[r] = "waiting"
    /\ approval_answer[r] = <<>>
    /\ run_events' = [run_events EXCEPT ![r] =
                         Append(@, RunEvent("approval_timeout", pending[r][1].request_id))]
    /\ pending' = [pending EXCEPT ![r] = <<>>]
    /\ status' = [status EXCEPT ![r] = "running"]
    /\ gate_ret' = [gate_ret EXCEPT ![r] = << <<"n">> >>]
    /\ wpc' = [wpc EXCEPT ![r] = "returned"]
    /\ UNCHANGED <<runs, request, final_text, error, session, approval_answer,
                   wstep, wcall, next_request, approve_calls>>
    /\ api_ret' = NoApiRet
    /\ UNCHANGED <<lock_vars, policy_vars, loop_vars, call_vars, wresult>>

M_wait_for_approval_answered_returns_deny(r) ==
    /\ r \in runs /\ wpc[r] = "waiting"
    /\ approval_answer[r] # <<>>
    /\ gate_ret' = [gate_ret EXCEPT ![r] = << <<"n">> >>]
    /\ pending' = [pending EXCEPT ![r] = <<>>]
    /\ wpc' = [wpc EXCEPT ![r] = "returned"]
    /\ UNCHANGED <<runs, request, status, final_text, error, session,
                   approval_answer, run_events, wstep, wcall, next_request,
                   approve_calls>>
    /\ api_ret' = NoApiRet
    /\ UNCHANGED <<lock_vars, policy_vars, loop_vars, call_vars, wresult>>

\* _wait_for_approval, lines 192 and 198-200: an answer was deposited, the
\* worker holds the lock again and returns the answer ('n' for an empty one)
_wait_for_approval_answered(r) ==
    /\ r \in runs /\ wpc[r] = "waiting"
    /\ approval_answer[r] # <<>>
    /\ LET answer == IF approval_answer[r][1] = <<>> THEN <<"n">>
                     ELSE approval_answer[r][1]
       IN  gate_ret' = [gate_ret EXCEPT ![r] = <<answer>>]
    /\ pending' = [pending EXCEPT ![r] = <<>>]
    /\ wpc' = [wpc EXCEPT ![r] = "returned"]
    /\ UNCHANGED <<runs, request, status, final_text, error, session,
                   approval_answer, run_events, wstep, wcall, next_request,
                   approve_calls>>
    /\ api_ret' = NoApiRet
    /\ UNCHANGED <<lock_vars, policy_vars, loop_vars, call_vars, wresult>>

M_approve_rejects_only_without_pending(p, request_id) == p = <<>>

\* a variant of the test of line 90 that lets a call through when no request
\* is pending
M_approve_rejects_only_other_id(p, request_id) ==
    p # <<>> /\ p[1].request_id # request_id

\* approve, line 90: state.pending is None or state.pending.request_id != request_id
ApproveRejects(p, request_id) == p = <<>> \/ p[1].request_id # request_id

\* RunManager.approve
approve(run_id, request_id, decision_text) ==
    /\ approve_calls < MaxApproveCalls
    /\ approve_calls' = approve_calls + 1
    /\ IF run_id \notin runs
       THEN /\ api_ret' = [op |-> "approve", run_id |-> run_id,
                           request_id |-> request_id, ret |-> "False",
                           status |-> "", pending |-> <<>>, events |-> <<>>]
            /\ UNCHANGED <<status, approval_answer, run_events>>
       ELSE IF ApproveRejects(pending[run_id], request_id)
       THEN /\ api_ret' = [op |-> "approve", run_id |-> run_id,
                           request_id |-> request_id, ret |-> "False",
                           status |-> "", pending |-> <<>>, events |-> <<>>]
            /\ UNCHANGED <<status, approval_answer, run_events>>
       ELSE LET answer == Lower(Strip(decision_text))
            IN  /\ approval_answer' = [approval_answer EXCEPT ![run_id] = <<answer>>]
                /\ status' = [status EXCEPT ![run_id] = "running"]
                /\ run_events' = [run_events EXCEPT ![run_id] =
                                     Append(@, RunEvent("approval_received", answer))]
                /\ api_ret' = [op |-> "approve", run_id |-> run_id,
                               request_id |-> request_id, ret |-> "True",
                               status |-> "", pending |-> <<>>, events |-> <<>>]
    /\ UNCHANGED <<runs, request, final_text, error, session, pending, wpc, wstep,
                   wcall, gate_ret, next_request>>
    /\ UNCHANGED <<lock_vars, policy_vars, loop_vars, call_vars, wresult>>

\* RunManager.snapshot: None for an unknown run, else the fields read under
\* the lock (of them, the status and the pending request)
snapshot(run_id) ==
    /\ api_ret' = IF run_id \notin runs
                  THEN [op |-> "snapshot", run_id |-> run_id, request_id |-> 0,
                        ret |-> "None", status |-> "", pending |-> <<>>, events |-> <<>>]
                  ELSE [op |-> "snapshot", run_id |-> run_id, request_id |-> 0,
                        ret |-> "dict", status |-> status[run_id],
                        pending |-> pending[run_id], events |-> <<>>]
    /\ UNCHANGED <<runs, request, status, final_text, error, session, pending,
                   approval_answer, run_events, wpc, wstep, wcall, gate_ret,
                   next_request, approve_calls>>
    /\ UNCHANGED <<lock_vars, policy_vars, loop_vars, call_vars, wresult>>

\* RunManager.events: None for an unknown run, else a copy of the event list
\* made under the lock
RunManager_events(run_id) ==
    /\ api_ret' = IF run_id \notin runs
                  THEN [op |-> "events", run_id |-> run_id, request_id |-> 0,
                        ret |-> "None", status |-> "", pending |-> <<>>,
                        events |-> <<>>]
                  ELSE [op |-> "events", run_id |-> run_id, request_id |-> 0,
                        ret |-> "list", status |-> "", pending |-> <<>>,
                        events |-> run_events[run_id]]
    /\ UNCHANGED <<runs, request, status, final_text, error, session, pending,
                   approval_answer, run_events, wpc, wstep, wcall, gate_ret,
                   next_request, approve_calls>>
    /\ UNCHANGED <<lock_vars, policy_vars, loop_vars, call_vars, wresult>>


\* The worker's step loop, seen from the run manager: orchestrator.run is
\* called with the gate as structured_approve_fn (lines 160-166); the loop
\* asks the gate for the initial approval of a step, then possibly for the
\* extra one, and goes on to the next step or returns.

\* the step loop asks for the initial approval of the step's proposal
WorkerAsksInitial(r, tool) ==
    /\ r \in runs /\ wpc[r] = "oracle"
    /\ wstep[r] <= request[r].max_steps
    /\ wcall' = [wcall EXCEPT ![r] = [tool |-> tool, stage |-> "initial"]]
    /\ _wait_for_approval_request(r, tool, "oracle", "initial")
    /\ UNCHANGED <<runs, request, final_text, error, session, wstep, gate_ret,
                   approve_calls>>
    /\ api_ret' = NoApiRet
    /\ UNCHANGED <<lock_vars, policy_vars, loop_vars, call_vars, wresult>>

\* the gate returned an approval of the initial request and the step needs
\* the extra one
WorkerAsksExtra(r) ==
    /\ r \in runs /\ wpc[r] = "returned"
    /\ wcall[r].stage = "initial"
    /\ gate_ret[r][1] \in { <<"y">>, <<"y","e","s">> }
    /\ wcall' = [wcall EXCEPT ![r].stage = "extra"]
    /\ _wait_for_approval_request(r, wcall[r].tool, "fixed", "extra")
    /\ UNCHANGED <<runs, request, final_text, error, session, wstep, gate_ret,
                   approve_calls>>
    /\ api_ret' = NoApiRet
    /\ UNCHANGED <<lock_vars, policy_vars, loop_vars, call_vars, wresult>>

\* the gate returned and the step ends (denied, or approved and executed):
\* the loop goes on to the next step
WorkerNextStep(r) ==
    /\ r \in runs /\ wpc[r] = "returned"
    /\ wstep' = [wstep EXCEPT ![r] = @ + 1]
    /\ wpc' = [wpc EXCEPT ![r] = "oracle"]
    /\ UNCHANGED <<runs, request, status, final_text, error, session, pending,
                   approval_answer, run_events, wcall, gate_ret, next_request,
                   approve_calls>>
    /\ api_ret' = NoApiRet
    /\ UNCHANGED <<lock_vars, policy_vars, loop_vars, call_vars, wresult>>

\* what the step loop returns on a final decision: the text of line 62,
\* here for an empty response
FinalResults == { FinalText("") }

\* the step loop returns: on a final decision of the current step, or with
\* the stopped message once the step budget is used up
WorkerReturns(r, res) ==
    /\ r \in runs /\ wpc[r] = "oracle"
    /\ IF wstep[r] <= request[r].max_steps THEN res \in FinalResults
       ELSE res = StoppedMsg
    /\ wresult' = [wresult EXCEPT ![r] = res]
    /\ wpc' = [wpc EXCEPT ![r] = "ret"]
    /\ UNCHANGED <<runs, request, status, final_text, error, session, pending,
                   approval_answer, run_events, wstep, wcall, gate_ret,
                   next_request, approve_calls>>
    /\ api_ret' = NoApiRet
    /\ UNCHANGED <<lock_vars, policy_vars, loop_vars, call_vars>>

\* the state after RunManager.__init__ (the step loop and the policy engine
\* of the other specifications are not running)
InitManager ==
    /\ engine = RunEngine
    /\ pol_proposal = NoProposal
    /\ pol_decision = None
    /\ LoopIdle
    /\ oracle = NoModelCall
    /\ NoRuns

NextManager ==
    \/ create_run([max_steps |-> MaxManagedSteps])
    \/ \E r \in RunIds : _run_worker_setup(r)
    \/ \E r \in RunIds : _run_worker_construct(r)
    \/ \E r \in RunIds, tool \in GateTools : WorkerAsksInitial(r, tool)
    \/ \E r \in RunIds : WorkerAsksExtra(r)
    \/ \E r \in RunIds : WorkerNextStep(r)
    \/ \E r \in RunIds, res \in FinalResults \cup {StoppedMsg} : WorkerReturns(r, res)
    \/ \E r \in RunIds : _wait_for_approval_timeout(r)
    \/ \E r \in RunIds : _wait_for_approval_answered(r)
    \/ \E r \in RunIds : _run_worker_completed(r)
    \/ \E r \in RunIds : _run_worker_failed(r)
    \/ \E r \in RunIds, d \in Decisions : \E q \in ApproveIds(r) : approve(r, q, d)
    \/ \E r \in RunIds : snapshot(r)
    \/ \E r \in RunIds : RunManager_events(r)

SpecManager == InitManager /\ [][NextManager]_vars

\* one step of the worker thread of run r (_run_worker is the thread's
\* target, line 77)
WorkerStep(r) ==
    \/ _run_worker_setup(r)
    \/ _run_worker_construct(r)
    \/ \E tool \in GateTools : WorkerAsksInitial(r, tool)
    \/ WorkerAsksExtra(r)
    \/ WorkerNextStep(r)
    \/ \E res \in FinalResults \cup {StoppedMsg} : WorkerReturns(r, res)
    \/ _wait_for_approval_timeout(r)
    \/ _wait_for_approval_answered(r)
    \/ _run_worker_completed(r)
    \/ _run_worker_failed(r)

\* the steps that change a RunState or the registry: those of NextManager
\* without snapshot and events, which only read
NextManagerLive ==
    \/ create_run([max_steps |-> MaxManagedSteps])
    \/ \E r \in RunIds : WorkerStep(r)
    \/ \E r \in RunIds, d \in Decisions : \E q \in ApproveIds(r) : approve(r, q, d)

\* the run manager with worker threads that are scheduled fairly: a worker
\* that can take a step (the oracle or the tool returned, the wait was
\* answered or its timeout elapsed) eventually takes one
SpecManagerLive ==
    InitManager /\ [][NextManagerLive]_vars /\ \A r \in RunIds : WF_vars(WorkerStep(r))

\* ---------------------------------------------------------------------
\* The threads and locks of the run manager (specification SpecLocks): the
\* same operations as in SpecManager, one step per lock acquisition and one
\* per critical section, run by two request-handling threads and one worker
\* thread per run.

\* the fields of the RunStates that the threads of SpecLocks leave alone
\* are listed in each action; the other components are not running
others_idle == <<policy_vars, loop_vars, call_vars, wcall, next_request, api_ret>>

\* the run ids handed out so far: registered, or of a create_run under way
Allocated == runs \cup { caller[x].run : x \in { y \in Callers : caller[y].op = "create_run" } }

\* app.py create_run -> RunManager.create_run, lines 73-75: a fresh run id,
\* the RunState constructed with the defaults of the dataclass, and the
\* registry lock acquired
create_run_begin(c, req) ==
    /\ caller[c].pc = "idle"
    /\ RunIds \ Allocated # {}
    /\ lock_owner[RegistryLock] = Free
    /\ LET run_id == CHOOSE x \in RunIds \ Allocated :
                         \A y \in RunIds \ Allocated : x <= y
       IN  /\ request' = [request EXCEPT ![run_id] = req]
           /\ caller' = [caller EXCEPT ![c] =
                            [pc |-> "cr_held", op |-> "create_run",
                             run |-> run_id, q |-> 0]]
    /\ lock_owner' = [lock_owner EXCEPT ![RegistryLock] = c]
    /\ UNCHANGED <<runs, status, final_text, error, session, pending,
                   approval_answer, run_events, wpc, wstep, wresult, gate_ret,
                   approve_calls, others_idle>>

\* RunManager.create_run, line 76: the run is registered and the registry
\* lock released
create_run_insert(c) ==
    /\ caller[c].pc = "cr_held"
    /\ runs' = runs \cup {caller[c].run}
    /\ lock_owner' = [lock_owner EXCEPT ![RegistryLock] = Free]
    /\ caller' = [caller EXCEPT ![c].pc = "cr_start"]
    /\ UNCHANGED <<request, status, final_text, error, session, pending,
                   approval_answer, run_events, wpc, wstep, wresult, gate_ret,
                   approve_calls, others_idle>>

\* RunManager.create_run, lines 77-79: the worker thread is started
create_run_start(c) ==
    /\ caller[c].pc = "cr_start"
    /\ wpc' = [wpc EXCEPT ![caller[c].run] = "setup"]
    /\ caller' = [caller EXCEPT ![c].pc = "cr_read"]
    /\ UNCHANGED <<runs, request, status, final_text, error, session, pending,
                   approval_answer, run_events, wstep, wresult, gate_ret,
                   approve_calls, lock_owner, others_idle>>

\* app.py create_run, line 157: state.run_id and state.status are read for
\* the response
create_run_return(c) ==
    /\ caller[c].pc = "cr_read"
    /\ caller' = [caller EXCEPT ![c] = IdleCaller]
    /\ UNCHANGED <<runs, request, status, final_text, error, session, pending,
                   approval_answer, run_events, wpc, wstep, wresult, gate_ret,
                   approve_calls, lock_owner, others_idle>>

\* approve, snapshot or events is called and get_run takes the registry lock
\* (line 82)
get_run_begin(c, op, run_id, request_id) ==
    /\ caller[c].pc = "idle"
    /\ lock_owner[RegistryLock] = Free
    /\ IF op = "approve"
       THEN approve_calls < MaxApproveCalls /\ approve_calls' = approve_calls + 1
       ELSE request_id = 0 /\ approve_calls' = approve_calls
    /\ lock_owner' = [lock_owner EXCEPT ![RegistryLock] = c]
    /\ caller' = [caller EXCEPT ![c] =
                     [pc |-> "g_held", op |-> op, run |-> run_id, q |-> request_id]]
    /\ UNCHANGED <<runs, request, status, final_text, error, session, pending,
                   approval_answer, run_events, wpc, wstep, wresult, gate_ret,
                   others_idle>>

M_get_run_keeps_registry_lock(c) ==
    /\ caller[c].pc = "g_held"
    /\ IF caller[c].run \in runs
       THEN /\ caller' = [caller EXCEPT ![c].pc = "s_lock"]
            /\ lock_owner' = lock_owner
       ELSE /\ caller' = [caller EXCEPT ![c] = IdleCaller]
            /\ lock_owner' = [lock_owner EXCEPT ![RegistryLock] = Free]
    /\ UNCHANGED <<runs, request, status, final_text, error, session, pending,
                   approval_answer, run_events, wpc, wstep, wresult, gate_ret,
                   approve_calls, others_idle>>

\* get_run, lines 82-83: the run is looked up and the registry lock
\* released; the caller returns None or False for an unknown run (lines 87,
\* 100, 116) and goes on to the RunState's lock otherwise
get_run(c) ==
    /\ caller[c].pc = "g_held"
    /\ lock_owner' = [lock_owner EXCEPT ![RegistryLock] = Free]
    /\ caller' = [caller EXCEPT ![c] =
                     IF caller[c].run \in runs THEN [@ EXCEPT !.pc = "s_lock"]
                     ELSE IdleCaller]
    /\ UNCHANGED <<runs, request, status, final_text, error, session, pending,
                   approval_answer, run_events, wpc, wstep, wresult, gate_ret,
                   approve_calls, others_idle>>

\* `with state.lock:` of approve, snapshot and events (lines 89, 102, 118)
lock_run_state(c) ==
    /\ caller[c].pc = "s_lock"
    /\ lock_owner[caller[c].run] = Free
    /\ lock_owner' = [lock_owner EXCEPT ![caller[c].run] = c]
    /\ caller' = [caller EXCEPT ![c].pc = "s_held"]
    /\ UNCHANGED <<runs, request, status, final_text, error, session, pending,
                   approval_answer, run_events, wpc, wstep, wresult, gate_ret,
                   approve_calls, others_idle>>

\* approve, lines 90-96, under the RunState's lock
approve_locked(c, decision_text) ==
    /\ caller[c].pc = "s_held" /\ caller[c].op = "approve"
    /\ LET run_id == caller[c].run
           answer == Lower(Strip(decision_text))
       IN  /\ IF ApproveRejects(pending[run_id], caller[c].q)
              THEN UNCHANGED <<status, approval_answer, run_events>>
              ELSE /\ approval_answer' = [approval_answer EXCEPT ![run_id] = <<answer>>]
                   /\ status' = [status EXCEPT ![run_id] = "running"]
                   /\ run_events' = [run_events EXCEPT ![run_id] =
                                        Append(@, RunEvent("approval_received", answer))]
           /\ lock_owner' = [lock_owner EXCEPT ![run_id] = Free]
    /\ caller' = [caller EXCEPT ![c] = IdleCaller]
    /\ UNCHANGED <<runs, request, final_text, error, session, pending, wpc, wstep,
                   wresult, gate_ret, approve_calls, others_idle>>

\* snapshot, lines 103-112, and events, line 119, under the RunState's lock
read_locked(c) ==
    /\ caller[c].pc = "s_held" /\ caller[c].op = "read"
    /\ lock_owner' = [lock_owner EXCEPT ![caller[c].run] = Free]
    /\ caller' = [caller EXCEPT ![c] = IdleCaller]
    /\ UNCHANGED <<runs, request, status, final_text, error, session, pending,
                   approval_answer, run_events, wpc, wstep, wresult, gate_ret,
                   approve_calls, others_idle>>

\* the worker of run r takes the RunState's lock: line 142 (to store the
\* session), line 186 (to register a request, while the step budget lasts),
\* line 167 (orchestrator.run returned) or line 173 (an exception was raised
\* while the run was prepared or in the step loop)
worker_lock(r, to) ==
    /\ r \in runs
    /\ lock_owner[r] = Free
    /\ \/ wpc[r] = "setup" /\ to = "ses_held"
       \/ wpc[r] = "oracle" /\ to = "req_held" /\ wstep[r] <= request[r].max_steps
       \/ wpc[r] = "oracle" /\ to = "fin_held"
       \/ wpc[r] \in {"setup", "construct", "oracle"} /\ to = "fail_held"
    /\ wresult' = [wresult EXCEPT ![r] =
                      IF to # "fin_held" THEN @
                      ELSE IF wstep[r] <= request[r].max_steps THEN FinalText("")
                      ELSE StoppedMsg]
    /\ lock_owner' = [lock_owner EXCEPT ![r] = Worker(r)]
    /\ wpc' = [wpc EXCEPT ![r] = to]
    /\ UNCHANGED <<runs, request, status, final_text, error, session, pending,
                   approval_answer, run_events, wstep, gate_ret, approve_calls,
                   caller, others_idle>>

\* _run_worker, lines 142-143: the session is stored and the lock released
store_session(r) ==
    /\ wpc[r] = "ses_held"
    /\ session' = [session EXCEPT ![r] = "goal"]
    /\ lock_owner' = [lock_owner EXCEPT ![r] = Free]
    /\ wpc' = [wpc EXCEPT ![r] = "construct"]
    /\ UNCHANGED <<runs, request, status, final_text, error, pending,
                   approval_answer, run_events, wstep, wresult, gate_ret,
                   approve_calls, caller, others_idle>>

\* _run_worker, lines 145-166: the step loop is entered
enter_step_loop(r) ==
    /\ r \in runs /\ wpc[r] = "construct"
    /\ wpc' = [wpc EXCEPT ![r] = "oracle"]
    /\ wstep' = [wstep EXCEPT ![r] = 1]
    /\ UNCHANGED <<runs, request, status, final_text, error, session, pending,
                   approval_answer, run_events, wresult, gate_ret, approve_calls,
                   lock_vars, others_idle>>

\* _wait_for_approval, lines 187-192: the request is registered and wait_for
\* releases the lock while the worker is suspended
register_and_wait(r) ==
    /\ wpc[r] = "req_held"
    /\ LET req == [request_id |-> RequestId(r, wstep[r]), tool_name |-> "shell",
                   reason |-> "oracle", args |-> "args", stage |-> "initial"]
       IN  /\ pending' = [pending EXCEPT ![r] = <<req>>]
           /\ run_events' = [run_events EXCEPT ![r] =
                                Append(@, RunEvent("approval_requested", req.request_id))]
    /\ approval_answer' = [approval_answer EXCEPT ![r] = <<>>]
    /\ status' = [status EXCEPT ![r] = "waiting_approval"]
    /\ lock_owner' = [lock_owner EXCEPT ![r] = Free]
    /\ wpc' = [wpc EXCEPT ![r] = "waiting"]
    /\ UNCHANGED <<runs, request, final_text, error, session, wstep, wresult,
                   gate_ret, approve_calls, caller, others_idle>>

\* wait_for, line 192: the worker was notified or the timeout elapsed, and
\* it takes the lock again before wait_for returns
wake_up(r) ==
    /\ r \in runs /\ wpc[r] = "waiting"
    /\ lock_owner[r] = Free
    /\ lock_owner' = [lock_owner EXCEPT ![r] = Worker(r)]
    /\ wpc' = [wpc EXCEPT ![r] = "woke_held"]
    /\ UNCHANGED <<runs, request, status, final_text, error, session, pending,
                   approval_answer, run_events, wstep, wresult, gate_ret,
                   approve_calls, caller, others_idle>>

\* _wait_for_approval, lines 193-200: the timeout or the answer is handled,
\* the lock is released on return and the step loop goes on to its next step
gate_return(r) ==
    /\ wpc[r] = "woke_held"
    /\ IF approval_answer[r] = <<>>
       THEN /\ run_events' = [run_events EXCEPT ![r] =
                   Append(@, RunEvent("approval_timeout", pending[r][1].request_id))]
            /\ status' = [status EXCEPT ![r] = "running"]
            /\ gate_ret' = [gate_ret EXCEPT ![r] = << <<"n">> >>]
       ELSE /\ gate_ret' = [gate_ret EXCEPT ![r] =
                   IF approval_answer[r][1] = <<>> THEN << <<"n">> >>
                   ELSE approval_answer[r]]
            /\ UNCHANGED <<status, run_events>>
    /\ pending' = [pending EXCEPT ![r] = <<>>]
    /\ lock_owner' = [lock_owner EXCEPT ![r] = Free]
    /\ wpc' = [wpc EXCEPT ![r] = "oracle"]
    /\ wstep' = [wstep EXCEPT ![r] = @ + 1]
    /\ UNCHANGED <<runs, request, final_text, error, session, approval_answer,
                   wresult, approve_calls, caller, others_idle>>

\* _run_worker, lines 168-171, and the release of the lock
complete_locked(r) ==
    /\ wpc[r] = "fin_held"
    /\ final_text' = [final_text EXCEPT ![r] = wresult[r]]
    /\ status' = [status EXCEPT ![r] = "completed"]
    /\ run_events' = [run_events EXCEPT ![r] =
                         Append(@, RunEvent("completed", wresult[r]))]
    /\ pending' = [pending EXCEPT ![r] = <<>>]
    /\ lock_owner' = [lock_owner EXCEPT ![r] = Free]
    /\ wpc' = [wpc EXCEPT ![r] = "done"]
    /\ UNCHANGED <<runs, request, error, session, approval_answer, wstep, wresult,
                   gate_ret, approve_calls, caller, others_idle>>

\* _run_worker, lines 174-176, and the release of the lock
fail_locked(r) ==
    /\ wpc[r] = "fail_held"
    /\ status' = [status EXCEPT ![r] = "failed"]
    /\ error' = [error EXCEPT ![r] = "exc"]
    /\ run_events' = [run_events EXCEPT ![r] = Append(@, RunEvent("failed", "exc"))]
    /\ lock_owner' = [lock_owner EXCEPT ![r] = Free]
    /\ wpc' = [wpc EXCEPT ![r] = "done"]
    /\ UNCHANGED <<runs, request, final_text, session, pending, approval_answer,
                   wstep, wresult, gate_ret, approve_calls, caller, others_idle>>

\* the calls a request-handling thread may start: approve, and "read" for
\* snapshot and for events, which differ only in the fields they copy under
\* the lock (lines 98-119); approve is tried with the id of the run's first
\* request (the pending one, a resolved one or one not yet issued, depending
\* on when the call is made) and an approving decision
CallOps == {"approve", "read"}
LockDecisions == { <<"y">> }

\* one step of request-handling thread c
CallerStep(c) ==
    \/ create_run_begin(c, [max_steps |-> MaxManagedSteps])
    \/ create_run_insert(c)
    \/ create_run_start(c)
    \/ create_run_return(c)
    \/ \E op \in CallOps, r \in RunIds :
          get_run_begin(c, op, r, IF op = "approve" THEN RequestId(r, 1) ELSE 0)
    \/ get_run(c)
    \/ lock_run_state(c)
    \/ \E d \in LockDecisions : approve_locked(c, d)
    \/ read_locked(c)

\* one step of the worker thread of run r
WorkerThreadStep(r) ==
    \/ \E to \in {"ses_held", "req_held", "fin_held", "fail_held"} : worker_lock(r, to)
    \/ store_session(r)
    \/ enter_step_loop(r)
    \/ register_and_wait(r)
    \/ wake_up(r)
    \/ gate_return(r)
    \/ complete_locked(r)
    \/ fail_locked(r)

NextLocks ==
    \/ \E c \in Callers : CallerStep(c)
    \/ \E r \in RunIds : WorkerThreadStep(r)

SpecLocks == InitManager /\ [][NextLocks]_vars


\* ---------------------------------------------------------------------
\* Claims about the approval handshake

\* the step is an approve call on run r with request id q
ApproveCall(r, q) ==
    /\ api_ret'.op = "approve"
    /\ api_ret'.run_id = r
    /\ api_ret'.request_id = q

\* C2: approve returns false and leaves status, pending, approval_answer and
\* the events of every run as they were whenever the run is not registered,
\* has no pending request, or has a pending request with another id; this
\* holds in every reachable state, terminal runs included.
Thm_C2_ApproveRejectsUnmatched ==
    [][\A r \in RunIds, q \in RequestIds :
          ( /\ ApproveCall(r, q)
            /\ \/ r \notin runs
               \/ pending[r] = <<>>
               \/ pending[r][1].request_id # q )
          => /\ api_ret'.ret = "False"
             /\ status' = status
             /\ pending' = pending
             /\ approval_answer' = approval_answer
             /\ run_events' = run_events]_vars

\* an approve carrying the id of an earlier request was rejected while a
\* later request of the same run is pending
Wit_C2_StaleIdRejected ==
    /\ api_ret.op = "approve" /\ api_ret.ret = "False"
    /\ api_ret.run_id \in runs
    /\ status[api_ret.run_id] = "waiting_approval"
    /\ pending[api_ret.run_id] # <<>>
    /\ api_ret.request_id < pending[api_ret.run_id][1].request_id
    /\ approval_answer[api_ret.run_id] = <<>>

\* the step is the return of run r's approval wait without an answer
TimeoutReturn(r) ==
    /\ wpc[r] = "waiting" /\ wpc'[r] = "returned"
    /\ approval_answer[r] = <<>>

FinalDecided == decision.kind = "final"

\* C11 as stated: the step loop terminates at the first final decision, its
\* result is that decision's response text, that step has no approval request
\* and no tool execution, and the oracle is not called again.
Cex_C11_ResultIsResponseText ==
    FinalDecided =>
        /\ pc = "done"
        /\ result = decision.final_response
        /\ asked = <<>> /\ attempts = 0 /\ ~evaluated

\* C11, amended: as above, with the result being the decision's response
\* text when it has one and "No final response." when the text is missing
\* or empty; after the final decision nothing of the run changes any more
\* (no further oracle call, approval request or execution).
Thm_C11_FinalDecisionTerminates ==
    /\ [](FinalDecided =>
            /\ pc = "done"
            /\ IF decision.final_response \in {None, ""}
               THEN result = NoFinalResponse
               ELSE result = decision.final_response
            /\ messages[Len(messages)] = [role |-> "assistant", content |-> result]
            /\ asked = <<>> /\ attempts = 0 /\ ~evaluated)
    /\ [][FinalDecided => UNCHANGED <<oracle_calls, asked, attempts, executed, result>>]_vars

\* a run whose first step executed a tool and whose second step got the
\* final decision "done"
Wit_C11_FinalAfterExecutedStep ==
    /\ FinalDecided /\ decision.final_response = "done"
    /\ pc = "done" /\ result = "done"
    /\ oracle_calls = 2 /\ executed > 0 /\ attempts = 0

\* the run returned and the oracle never returned a final decision
EndedWithoutFinal == pc = "done" /\ decision.kind # "final"

\* the run returned from the end of the for loop: stopped message, stopped
\* event last, one oracle call per step of the budget
StoppedNormally ==
    /\ result = StoppedMsg
    /\ events # <<>> /\ events[Len(events)] = Event("stopped", StoppedMsg)
    /\ oracle_calls = cfg.max_steps

\* C12 as stated: with an oracle that never returns a final decision, and any
\* approval answers, run calls the oracle exactly max_steps times and returns
\* the stopped message after recording a stopped event.
Cex_C12_NoFinalMeansStopped == EndedWithoutFinal => StoppedNormally

\* C12, amended: the same for an oracle that never returns a final decision
\* and always returns its action with a payload (an action without payload
\* aborts the run with the protocol-violation message instead); every step,
\* denied or executed, takes exactly one oracle call of the budget.
Thm_C12_BudgetExhaustedStops ==
    /\ (EndedWithoutFinal /\ (decision.kind = "action" => decision.action # <<>>))
          => StoppedNormally
    /\ (EndedWithoutFinal /\ decision.kind = "action" /\ decision.action = <<>>)
          => result = NoPayloadMsg
    /\ oracle_calls <= cfg.max_steps
    /\ pc = "decide" => oracle_calls = step - 1
    /\ pc \in {"ask_initial", "ask_extra", "exec"} => oracle_calls = step

\* a run of two steps, one denied by the approver and one executed, that
\* ended with the stopped message
Wit_C12_DeniedAndExecutedSteps ==
    /\ EndedWithoutFinal /\ StoppedNormally
    /\ cfg.max_steps = 2 /\ executed > 0
    /\ \E i \in DOMAIN events : events[i].type = "approval_denied"
    /\ \E i \in DOMAIN events : events[i].type = "tool_result"

\* ---------------------------------------------------------------------
\* Claims about managed runs (specifications SpecManager, SpecManagerLive)

Terminal(r) == status[r] \in {"completed", "failed"}

Registers(r) == wpc[r] # "waiting" /\ wpc'[r] = "waiting"

\* the step is the return of run r's approval wait to the step loop
GateReturns(r) == wpc[r] = "waiting" /\ wpc'[r] = "returned"

\* the latest request of run r was registered and then resolved by approve
\* calls or by the timeout: nothing else was logged since
LatestRequestResolved(r) ==
    \E i \in DOMAIN run_events[r] :
        /\ run_events[r][i] =
               RunEvent("approval_requested", RequestId(r, next_request[r] - 1))
        /\ i < Len(run_events[r])
        /\ \A j \in (i + 1)..Len(run_events[r]) :
               run_events[r][j].type \in {"approval_received", "approval_timeout"}

Fails(r) == status[r] # "failed" /\ status'[r] = "failed"

\* the step is the worker of run r taking the step loop's result
LoopReturned(r) == wpc[r] = "ret" /\ wpc'[r] # "ret"

Thm_C16_FailureIsolated ==
    [][\A r \in RunIds :
          /\ Fails(r)
             => /\ error'[r] # "" /\ final_text'[r] = final_text[r]
                /\ run_events'[r] =
                      Append(run_events[r], RunEvent("failed", error'[r]))
                /\ runs' = runs
                /\ \A x \in RunIds \ {r} :
                      /\ status'[x] = status[x]
                      /\ pending'[x] = pending[x]
                      /\ approval_answer'[x] = approval_answer[x]
                      /\ run_events'[x] = run_events[x]
                      /\ wpc'[x] = wpc[x]
          /\ status[r] = "failed"
             => \A x \in RunIds \ {r} :
                   /\ api_ret'.op = "approve" /\ api_ret'.run_id = x
                      => ( api_ret'.ret = "True"
                           <=> /\ x \in runs /\ pending[x] # <<>>
                               /\ pending[x][1].request_id = api_ret'.request_id )
                   /\ (api_ret'.op = "snapshot" /\ api_ret'.run_id = x /\ x \in runs)
                      => /\ api_ret'.ret = "dict"
                         /\ api_ret'.status = status[x]
                         /\ api_ret'.pending = pending[x]
                   /\ (api_ret'.op = "events" /\ api_ret'.run_id = x /\ x \in runs)
                      => api_ret'.ret = "list" /\ api_ret'.events = run_events[x]
                   /\ (x \notin runs /\ runs' # runs)
                      => runs' = runs \cup {x} /\ wpc'[x] = "setup"
                         /\ status'[x] = "running"]_vars

\* the first run failed while its model client was constructed; the second
\* run was created afterwards, is being prepared and a snapshot of it
\* returned status running
Wit_C16_OtherRunServedAfterFailure ==
    /\ runs = RunIds
    /\ status[1] = "failed" /\ error[1] # "" /\ session[1] # None
    /\ run_events[1] = << RunEvent("failed", error[1]) >>
    /\ wpc[2] = "construct" /\ run_events[2] = <<>>
    /\ api_ret.op = "snapshot" /\ api_ret.run_id = 2 /\ api_ret.ret = "dict"
    /\ api_ret.status = "running"


ResolvedId(r, q) ==
    /\ \E k \in 1..(next_request[r] - 1) : q = RequestId(r, k)
    /\ pending[r] = <<>> \/ pending[r][1].request_id # q

\* the answer held for run r was deposited while the pending request was
\* pending: since that request was logged, only approvals were logged, and
\* the last of them carries the answer
DepositedForPending(r) ==
    \E i \in DOMAIN run_events[r] :
        /\ run_events[r][i] =
               RunEvent("approval_requested", pending[r][1].request_id)
        /\ i < Len(run_events[r])
        /\ \A j \in (i + 1)..Len(run_events[r]) :
               run_events[r][j].type = "approval_received"
        /\ run_events[r][Len(run_events[r])].data = approval_answer[r][1]

\* C18: an approve call carrying the id of a resolved request of a run
\* returns false and changes neither the answer, the pending request, the
\* status nor what the gate returns; a request starts without an answer; an
\* answer is deposited only by an approve call carrying the pending
\* request's own id; so the answer a wait returns was deposited for its own
\* request, and without one the wait returns 'n'.
Thm_C18_StaleApprovalsHarmless ==
    /\ [](\A r \in runs :
            (wpc[r] = "waiting" /\ approval_answer[r] # <<>>)
            => DepositedForPending(r))
    /\ [][\A r \in RunIds :
            /\ \A q \in RequestIds :
                  (ApproveCall(r, q) /\ ResolvedId(r, q))
                  => /\ api_ret'.ret = "False"
                     /\ approval_answer' = approval_answer
                     /\ pending' = pending
                     /\ status' = status
                     /\ gate_ret' = gate_ret
                     /\ run_events' = run_events
            /\ Registers(r) => approval_answer'[r] = <<>>
            /\ (approval_answer'[r] # approval_answer[r] /\ ~Registers(r))
               => /\ pending[r] # <<>> /\ pending'[r] = pending[r]
                  /\ ApproveCall(r, pending[r][1].request_id)
            /\ (GateReturns(r) /\ approval_answer[r] = <<>>)
               => gate_ret'[r] = << <<"n">> >>]_vars

\* the first request of a run was approved; while its second request is
\* pending and unanswered, an approve carrying the first id was rejected
Wit_C18_StaleApproveDuringSecondRequest ==
    \E r \in runs :
        /\ api_ret.op = "approve" /\ api_ret.run_id = r /\ api_ret.ret = "False"
        /\ api_ret.request_id = RequestId(r, 1)
        /\ pending[r] # <<>> /\ pending[r][1].request_id = RequestId(r, 2)
        /\ approval_answer[r] = <<>>
        /\ run_events[r] = << RunEvent("approval_requested", RequestId(r, 1)),
                              RunEvent("approval_received", <<"y">>),
                              RunEvent("approval_requested", RequestId(r, 2)) >>


\* thread c has a call or a run under way
Busy(c) ==
    IF c \in Callers THEN caller[c].pc # "idle"
    ELSE \E r \in RunIds : c = Worker(r) /\ wpc[r] \notin {"none", "done"}

\* thread c can go on only by taking lock l: a caller past get_run, a
\* worker about to enter one of its critical sections or suspended in wait_for
WaitsFor(c, l) ==
    IF c \in Callers THEN caller[c].pc = "s_lock" /\ l = caller[c].run
    ELSE l \in RunIds /\ c = Worker(l) /\ wpc[l] \in {"setup", "oracle", "waiting"}

\* thread c can take a step
CanStep(c) ==
    IF c \in Callers THEN ENABLED CallerStep(c)
    ELSE \E r \in RunIds : c = Worker(r) /\ ENABLED WorkerThreadStep(r)

\* C19: no thread holds two locks at once (two RunState locks, or the
\* registry lock with a RunState lock); a thread that takes a lock holds none
\* and the lock is free; a thread waiting for a RunState lock or suspended in
\* an approval wait holds no lock; and there is no deadlock: every thread
\* with a call or a run under way can take a step, or waits for a lock whose
\* holder can take a step.
Thm_C19_LockDiscipline ==
    /\ [](\A c \in Contexts :
            /\ Cardinality(Held(c)) <= 1
            /\ (\E l \in Locks : WaitsFor(c, l)) => Held(c) = {}
            /\ Busy(c)
               => \/ CanStep(c)
                  \/ \E l \in Locks :
                        /\ WaitsFor(c, l)
                        /\ lock_owner[l] \in Contexts \ {c}
                        /\ CanStep(lock_owner[l]))
    /\ [][\A c \in Contexts, l \in Locks :
            (lock_owner[l] # c /\ lock_owner'[l] = c)
            => lock_owner[l] = Free /\ Held(c) = {}]_vars

\* a caller waits for the lock of a run whose worker holds it to register a
\* request, while the other caller holds the registry lock and the other
\* run's worker is suspended in its approval wait
Wit_C19_LocksContended ==
    \E r \in runs :
        /\ wpc[r] = "req_held" /\ lock_owner[r] = Worker(r)
        /\ caller["c1"].pc = "s_lock" /\ caller["c1"].run = r
        /\ lock_owner[RegistryLock] = "c2"
        /\ \E x \in runs \ {r} : wpc[x] = "waiting"

\* the step is a read or a write of a mutable field of run r's RunState by
\* thread c: the body of approve, snapshot or events, the read of
\* state.status by the create-run handler, or one of the worker's bodies
Accesses(c, r) ==
    IF c \in Callers
    THEN /\ caller[c].run = r
         /\ caller[c].pc \in {"s_held", "cr_read"}
         /\ caller'[c].pc = "idle"
    ELSE /\ c = Worker(r)
         /\ wpc[r] \in {"ses_held", "req_held", "woke_held", "fin_held", "fail_held"}
         /\ wpc'[r] # wpc[r]

\* C20: every read and every write of a RunState's mutable fields, by the
\* worker and by every caller-facing operation including the create-run
\* path, is performed while holding that RunState's own lock.
Cex_C20_AccessesHoldLock ==
    [][\A c \in Contexts, r \in RunIds :
          Accesses(c, r) => lock_owner[r] = c]_vars

\* ---------------------------------------------------------------------------
\* Final decisions, protocol violations and the local approval gate
\* ---------------------------------------------------------------------------

\* the session's event sequence holds an event of the given type
HasEvent(type) == \E i \in 1..Len(events) : events[i].type = type

\* C21 as stated: when the oracle's decision is final, the run returns with
\* the response appended as the last assistant message and with an event of
\* type final in the session's event sequence.
Cex_C21_FinalEventRecorded ==
    FinalDecided =>
        /\ pc = "done"
        /\ messages[Len(messages)] = [role |-> "assistant", content |-> result]
        /\ HasEvent("final")

\* the oracle's latest decision is an action without an action payload
PayloadMissing == decision.kind = "action" /\ decision.action = <<>>

\* C22: when the oracle returns a decision of kind action with no payload,
\* the run aborts in that step: the error event is the last event of the
\* session, the step has no policy evaluation, approval request or tool
\* execution, and from then on the oracle is not called again and nothing
\* is requested or executed.
Thm_C22_MissingPayloadAborts ==
    /\ [](PayloadMissing =>
            /\ pc = "done"
            /\ result = NoPayloadMsg
            /\ events # <<>>
            /\ events[Len(events)] = Event("error", NoPayloadMsg)
            /\ ~evaluated /\ asked = <<>> /\ attempts = 0)
    /\ [][PayloadMissing =>
            UNCHANGED <<oracle_calls, asked, attempts, executed, evaluated,
                        events, messages, result>>]_vars

\* a run whose first step executed a tool and whose second step got an
\* action decision without payload
Wit_C22_AbortAfterExecutedStep ==
    /\ PayloadMissing /\ pc = "done"
    /\ oracle_calls = 2 /\ executed > 0 /\ attempts = 0
    /\ events[Len(events)].type = "error"

\* the answer input_fn returned to the latest approval request of the step
LastAnswer == asked[Len(asked)].ans

\* the latest approval request of the step was denied: the step ended with a
\* denial event and without execution
Denied ==
    /\ StepOver /\ attempts = 0
    /\ LastStepEvent.type \in {"approval_denied", "approval_denied_extra"}

\* answer texts that read 'y' or 'yes', and 'ad', once trimmed and lowercased
ApprovingTexts ==
    { <<"y">>, <<"Y">>, <<"Y","e","s"," ">>, <<" ","y","E","S">> }
AlwaysDenyTexts == { <<" ","A","D">>, <<"a","d">> }

\* the answer texts the table of the gate is checked on
AnswerTexts ==
    ApprovingTexts \cup AlwaysDenyTexts
    \cup { <<>>, <<" ">>, <<"n">>, <<"n","o">>, <<"y","e">>,
           <<"y"," ","e","s">>, <<"a","d","d">>, <<"y","e","s","!">> }

\* C23: the local approval gate maps the answer, trimmed and lowercased, as
\* follows: 'y' and 'yes' approve and leave the always-deny set unchanged;
\* 'ad' denies and adds the tool name to the always-deny set; every other
\* answer (the empty one and 'no' included) denies and leaves the set
\* unchanged.
Thm_C23_ApproveAnswerTable ==
    /\ [][Len(asked') > Len(asked) =>
            LET ans == asked'[Len(asked')].ans
            IN  /\ IsYes(ans) <=> ~Denied'
                /\ always_deny_tools' =
                      IF IsAlwaysDeny(ans)
                      THEN always_deny_tools \cup {CurTool}
                      ELSE always_deny_tools]_vars
    /\ [](pc = "start" =>
           \A t \in {"shell", "file", "web"}, a \in AnswerTexts,
              deny \in SUBSET {"shell", "file", "web"} :
              _approve(t, a, deny) =
                IF a \in AlwaysDenyTexts THEN <<FALSE, deny \cup {t}>>
                ELSE <<a \in ApprovingTexts, deny>>)

\* the answer ' AD' was given to a request for a tool while another tool was
\* already always denied: the step is denied and both tools are in the set
Wit_C23_PaddedUppercaseAd ==
    /\ asked # <<>> /\ LastAnswer = <<" ","A","D">>
    /\ Denied
    /\ Cardinality(always_deny_tools) = 2 /\ CurTool \in always_deny_tools

\* ---------------------------------------------------------------------------
\* The allowlist check and the verdicts of evaluate
\* ---------------------------------------------------------------------------

\* a shell proposal with a non-empty command has been evaluated
ShellEvaluated ==
    /\ pol_decision # None
    /\ pol_proposal.tool_name = "shell"
    /\ Strip(CommandOf(pol_proposal)) # <<>>

\* the first whitespace-delimited token of the evaluated command
FirstWord == FirstToken(Strip(CommandOf(pol_proposal)))

\* the token matches an allowlist entry when letter case is ignored
AllowlistedIgnoringCase ==
    \E e \in engine.allowed_shell_commands : Lower(e) = Lower(FirstWord)

\* C24 as stated: the allowlist check is case-insensitive for every allowlist
\* configuration: a non-empty command is denied by the allowlist check if and
\* only if its first token matches no allowlist entry, letter case ignored
\* (a command that passes the check is denied only for a destructive pattern).
Cex_C24_AllowlistIgnoresCase ==
    ShellEvaluated =>
        /\ ~AllowlistedIgnoringCase => pol_decision = DENY
        /\ (AllowlistedIgnoringCase /\ ~Destructive(CommandOf(pol_proposal)))
              => pol_decision # DENY

\* the evaluated proposal passes the validation of its tool: a shell command
\* that is non-empty, allowlisted and matches no destructive pattern; a file
\* path that is non-empty and leads inside the root; any web proposal
PassesValidation ==
    LET p == pol_proposal
    IN  CASE p.tool_name = "shell" ->
               /\ Strip(CommandOf(p)) # <<>>
               /\ Lower(FirstWord) \in engine.allowed_shell_commands
               /\ ~Destructive(Strip(CommandOf(p)))
          [] p.tool_name = "file" ->
               /\ "path" \in DOMAIN p.args
               /\ p.args.path # <<>>
               /\ WithinRoot(engine.root_dir, LeadsTo(engine.root_dir, p.args.path))
          [] p.tool_name = "web" -> TRUE
          [] OTHER -> FALSE

\* C25: for every proposal that passes validation, evaluate returns
\* needs_extra_confirmation exactly when the risk level is high and allow for
\* low and medium; for web this holds whatever the args; a tool name other
\* than file, shell or web yields deny.
Thm_C25_VerdictFollowsRisk ==
    pol_decision # None =>
        /\ PassesValidation =>
              pol_decision = IF pol_proposal.risk_level = "high"
                             THEN NEEDS_EXTRA_CONFIRMATION ELSE ALLOW
        /\ pol_proposal.tool_name \notin {"file", "shell", "web"} =>
              pol_decision = DENY

\* a medium-risk shell command with arguments, its token written with an
\* uppercase letter, was allowed
Wit_C25_MediumShellAllowed ==
    /\ pol_decision = ALLOW /\ PassesValidation
    /\ pol_proposal.tool_name = "shell"
    /\ pol_proposal.risk_level = "medium"
    /\ CommandOf(pol_proposal) = <<"R","m"," ","x">>

\* ---------------------------------------------------------------------------
\* The session and the log
\* ---------------------------------------------------------------------------

\* s is a prefix of t
IsPrefix(s, t) == Len(s) <= Len(t) /\ SubSeq(t, 1, Len(s)) = s

\* C26: the session's message and event sequences are append-only: every
\* step-loop operation leaves the previous message sequence and the previous
\* event sequence as prefixes of the new ones, and the session's goal never
\* changes (the first message of the session is that goal).
Thm_C26_SessionAppendOnly ==
    /\ [][/\ IsPrefix(messages, messages')
          /\ IsPrefix(events, events')
          /\ goal' = goal]_vars
    /\ [](messages # <<>> => messages[1] = [role |-> "user", content |-> goal])

\* a returned run whose session holds two messages and, for two steps, the
\* events of an executed tool call and of a final decision
Wit_C26_SessionGrown ==
    /\ pc = "done" /\ messages[1].content = goal
    /\ Len(messages) = 2 /\ Len(events) >= 4
    /\ HasEvent("tool_result")

\* the step loop apart from its log: one operation of run on the oracle's
\* decision, the answer or the tool result it was given, with no reference
\* to the outcome of a log write
LogFreeStep ==
    \/ RunStart
    \/ \E d \in OracleDecisions : DecideControl(d)
    \/ \E ans \in Answers : AnswerInitialControl(ans) \/ AnswerExtraControl(ans)
    \/ \E res \in ToolResults : ToolReturnControl(res)

\* run has not returned
Running == pc \in {"start", "decide", "ask_initial", "ask_extra", "exec"}

\* C27: a failure to write a log row never affects run control flow: every
\* step of a run, whether its log writes succeed or fail, is the step of the
\* log-free loop on the same oracle decision, approval answer or tool result
\* (same result, messages, events, approval requests and tool executions);
\* a run whose log writes all fail writes nothing and is never held up.
Thm_C27_LogFailureSwallowed ==
    /\ [][LogFreeStep]_vars
    /\ []((~log_ok /\ pc # "idle") => jsonl = <<>>)
    /\ []((~log_ok /\ Running) => ENABLED Next)

\* a run whose log writes all failed returned a final response after a step
\* with an executed tool call
Wit_C27_ReturnedWithoutLog ==
    /\ ~log_ok /\ jsonl = <<>>
    /\ pc = "done" /\ result = "done"
    /\ executed > 0 /\ HasEvent("tool_result")

\* ---------------------------------------------------------------------------
\* The oracle (agent/model_client.py, specification SpecOracle): one call of
\* ModelClient.decide, a function of the client's provider, the environment
\* and what the provider's API does
\* ---------------------------------------------------------------------------

\* bound of the output texts explored: the candidates _parse_decision finds
MaxCandidates == 2

\* the providers ModelClient.__init__ accepts
Providers == {"openai", "anthropic", "gemini"}

\* what one candidate of _parse_decision (the text, a fenced block, the
\* outermost braces) holds: a final or an action decision in JSON, JSON that
\* AgentDecision rejects, or no JSON
Payloads == {"final_json", "action_json", "invalid_schema", "not_json"}

\* the output texts, each as the candidates lines 197-202 find in it, in
\* order; the empty text has none
RECURSIVE OutputTexts(_)
OutputTexts(n) ==
    IF n = 0 THEN { <<>> }
    ELSE LET shorter == OutputTexts(n - 1)
         IN  shorter \cup { Append(t, c) : t \in shorter, c \in Payloads }

\* what the provider's API does: the request raises (connection error,
\* timeout, error status), or it returns an output text
Replies ==
    { [raises |-> TRUE, text |-> <<>>] }
    \cup { [raises |-> FALSE, text |-> t] : t \in OutputTexts(MaxCandidates) }

\* the diagnostic texts of the substituted final decisions
EmptyOutputMsg == "Model output parse error: empty output"
ParseErrorMsg == "Model output parse error. raw="
GeminiErrorMsg == "Gemini request error: "
MissingKeyMsg == "Missing GEMINI_API_KEY or GOOGLE_API_KEY."
Diagnostics == {EmptyOutputMsg, ParseErrorMsg, GeminiErrorMsg, MissingKeyMsg}

FinalDecision(text) == [kind |-> "final", action |-> <<>>, final_response |-> text]

\* json.loads and AgentDecision.model_validate of one candidate: the decision,
\* or nothing when JSONDecodeError or ValidationError was raised and caught
Validated(c) ==
    IF c = "final_json" THEN << FinalDecision("done") >>
    ELSE IF c = "action_json"
    THEN << [kind |-> "action", action |-> << Shell(<<"l","s">>, "low") >>,
             final_response |-> None] >>
    ELSE <<>>

\* ModelClient._parse_decision, lines 204-211: the first candidate that parses
\* and validates, or the parse-error decision
RECURSIVE FirstValid(_)
FirstValid(cands) ==
    IF cands = <<>> THEN FinalDecision(ParseErrorMsg)
    ELSE IF Validated(Head(cands)) # <<>> THEN Validated(Head(cands))[1]
    ELSE FirstValid(Tail(cands))

\* ModelClient._parse_decision
_parse_decision(text) ==
    IF text = <<>> THEN FinalDecision(EmptyOutputMsg) ELSE FirstValid(text)

\* the outcomes of a call: it returned a decision, or an exception left it
Returned(d) == [raised |-> FALSE, decision |-> d]
Raised == [raised |-> TRUE, decision |-> NoDecision]

\* ModelClient._decide_openai: the request is made outside any try
_decide_openai(reply) ==
    IF reply.raises THEN Raised ELSE Returned(_parse_decision(reply.text))

\* ModelClient._decide_anthropic: the request is made outside any try
_decide_anthropic(reply) ==
    IF reply.raises THEN Raised ELSE Returned(_parse_decision(reply.text))

\* ModelClient._decide_gemini: without an API key no request is made; the
\* request and the parsing are inside try / except Exception
_decide_gemini(api_key, reply) ==
    IF ~api_key THEN Returned(FinalDecision(MissingKeyMsg))
    ELSE IF reply.raises THEN Returned(FinalDecision(GeminiErrorMsg))
    ELSE Returned(_parse_decision(reply.text))

\* ModelClient.decide
decide(provider, api_key, reply) ==
    IF provider = "openai" THEN _decide_openai(reply)
    ELSE IF provider = "anthropic" THEN _decide_anthropic(reply)
    ELSE _decide_gemini(api_key, reply)

\* a ModelClient of each provider, the environment with and without the
\* Gemini API key, and every reply
InitOracle ==
    /\ oracle \in [provider : Providers, api_key : BOOLEAN, reply : Replies,
                   ret : { <<>> }]
    /\ engine = RunEngine
    /\ pol_proposal = NoProposal
    /\ pol_decision = None
    /\ LoopIdle
    /\ NoRuns

\* decision, model_metrics = self.model_client.decide(...)
ModelClient_decide ==
    /\ oracle.ret = <<>>
    /\ oracle' = [oracle EXCEPT
                    !.ret = << decide(oracle.provider, oracle.api_key, oracle.reply) >>]
    /\ UNCHANGED <<lock_vars, policy_vars, pc, cfg, goal, step, decision,
                   policy_status, always_deny_tools, retries, last, messages,
                   events, jsonl, log_ok, result, call_vars, mgr_vars>>

NextOracle == ModelClient_decide

SpecOracle == InitOracle /\ [][NextOracle]_vars

\* the call of decide is over
Decided == oracle.ret # <<>>

\* the call met a transport failure (the request raised) or a parse failure
\* (no candidate of the output text is a decision)
TransportFailed == oracle.reply.raises
ParseFailed ==
    /\ ~oracle.reply.raises
    /\ \A i \in DOMAIN oracle.reply.text : Validated(oracle.reply.text[i]) = <<>>

\* C28 as stated: decide never raises to the step loop, for every provider:
\* on any transport or parse failure it returns a decision of kind final
\* carrying a diagnostic message.
Cex_C28_DecideNeverRaises ==
    Decided =>
        /\ ~oracle.ret[1].raised
        /\ (TransportFailed \/ ParseFailed) =>
              /\ oracle.ret[1].decision.kind = "final"
              /\ oracle.ret[1].decision.final_response \in Diagnostics

\* ---------------------------------------------------------------------------
\* Tool failures and the always-deny set across runs
\* ---------------------------------------------------------------------------

\* the execution of the step's tool call ends with this transition
ExecutionEnds == pc = "exec" /\ pc' # "exec"

\* the number of events of the given type in a sequence of events
RECURSIVE CountEvents(_, _)
CountEvents(evs, type) ==
    IF evs = <<>> THEN 0
    ELSE (IF Head(evs).type = type THEN 1 ELSE 0) + CountEvents(Tail(evs), type)

\* C29: a tool failure never terminates the run: when an approved tool call
\* fails (after any retries; a raising tool is a result tagged exception),
\* the step records one tool_result event, with the failed result, and the
\* loop continues with the next step, the run returning only if the step
\* budget is used up; re-executions record nothing.
Thm_C29_ToolFailureContinues ==
    /\ [][ExecutionEnds =>
            /\ CountEvents(events', "tool_result")
                  = CountEvents(events, "tool_result") + 1
            /\ IF step < cfg.max_steps
               THEN /\ pc' = "decide" /\ step' = step + 1 /\ result' = None
                    /\ events' = Append(events, events'[Len(events')])
               ELSE pc' = "done" /\ result' = StoppedMsg]_vars
    /\ [][(pc = "exec" /\ pc' = "exec") => events' = events]_vars
    /\ [](CountEvents(events, "tool_result") <= step)

\* the tool call of the first step failed on each of its three attempts (a
\* retry budget of two); the failed result is recorded and the oracle was
\* called for the second step
Wit_C29_SecondStepAfterFailure ==
    /\ step = 2 /\ oracle_calls = 2 /\ pc = "ask_initial"
    /\ cfg.max_retries = 2 /\ executed = 3
    /\ events[3] = Event("tool_result", "failed")

\* Orchestrator.run is called again on the same Orchestrator after the
\* previous run returned, with a new SessionState and a RunConfig of the same
\* limits and its own log file: run assigns nothing of self before its loop
\* (lines 50-52), so self.always_deny_tools is what the previous run left
RunAgain ==
    /\ pc = "done"
    /\ pc' = "start"
    /\ step' = 0
    /\ decision' = NoDecision
    /\ policy_status' = None
    /\ retries' = 0
    /\ last' = NoResult
    /\ messages' = <<>>
    /\ events' = <<>>
    /\ jsonl' = <<>>
    /\ result' = None
    /\ asked' = <<>>
    /\ attempts' = 0
    /\ executed' = 0
    /\ oracle_calls' = 0
    /\ evaluated' = FALSE
    /\ UNCHANGED <<lock_vars, policy_vars, mgr_vars, goal, oracle, cfg,
                   always_deny_tools, log_ok>>

\* an Orchestrator that performs one run after the other, with normal
\* approval mode, no retries and a working log
InitRuns ==
    /\ Init
    /\ goal = "goal"
    /\ log_ok
    /\ cfg.approval_mode = "normal"
    /\ cfg.max_retries = 0

NextRuns == Next \/ RunAgain

SpecRuns == InitRuns /\ [][NextRuns]_vars

\* C30 as stated: the always-deny set is per run: every run starts with an
\* empty always-deny set (so an 'ad' answer of an earlier run denies nothing
\* in a later one), also when one Orchestrator performs both runs.
Cex_C30_RunStartsWithEmptySet ==
    pc = "start" => always_deny_tools = {}

\* ---------------------------------------------------------------------
\* Claims about repeated approvals, terminal runs and the event log
\* (specification SpecManager)

\* an approve call carrying q was accepted for run r: the log of r has an
\* approval_received event right after the approval_requested event of q
AcceptedFor(r, q) ==
    \E i \in DOMAIN run_events[r] :
        /\ run_events[r][i] = RunEvent("approval_requested", q)
        /\ i < Len(run_events[r])
        /\ run_events[r][i + 1].type = "approval_received"

TimedOut(r, q) ==
    \E i \in DOMAIN run_events[r] : run_events[r][i] = RunEvent("approval_timeout", q)

AnswersAt(stage) ==
    /\ Len(asked') = Len(asked) + 1
    /\ asked'[Len(asked')].stage = stage

\* C34: an 'ad' answer at the extra confirmation has the effect it has at the
\* initial approval: the step ends denied (with the denial event of its
\* stage) without any execution and the tool name joins the always-deny set;
\* the set keeps it, and a later decision proposing a tool of the set ends
\* its step with the always-denied event, without policy evaluation, approval
\* request or execution.
Thm_C34_ExtraAlwaysDeny ==
    /\ [][\A stage \in {"initial", "extra"} :
            (AnswersAt(stage) /\ IsAlwaysDeny(asked'[Len(asked')].ans))
            => /\ pc' \in {"decide", "done"}
               /\ executed' = executed /\ attempts' = 0
               /\ always_deny_tools' = always_deny_tools \cup {CurTool}
               /\ LET evs == IF events'[Len(events')].type = "stopped"
                             THEN SubSeq(events', 1, Len(events') - 1) ELSE events'
                  IN  evs = Append(events,
                                   Event(IF stage = "extra" THEN "approval_denied_extra"
                                         ELSE "approval_denied", "tool"))]_vars
    /\ [][(/\ pc = "decide"
           /\ decision'.kind = "action" /\ decision'.action # <<>>
           /\ decision'.action[1].tool_name \in always_deny_tools)
          => /\ pc' \in {"decide", "done"}
             /\ asked' = <<>> /\ ~evaluated'
             /\ executed' = executed /\ attempts' = 0
             /\ always_deny_tools' = always_deny_tools
             /\ \E i \in DOMAIN events' :
                   /\ i > Len(events)
                   /\ events'[i] = Event("approval_denied", "reason")]_vars
    /\ [][always_deny_tools \subseteq always_deny_tools'
          /\ (always_deny_tools' # always_deny_tools => Len(asked') > Len(asked))]_vars

\* the first step was approved at the initial request and answered 'ad' at
\* the extra one; the second step proposed the same tool and was denied as
\* always denied, without a request; nothing was executed
Wit_C34_DeniedAfterExtraAd ==
    /\ pc \in {"decide", "done"} /\ oracle_calls = 2 /\ executed = 0
    /\ HasProposal /\ CurTool \in always_deny_tools /\ asked = <<>>
    /\ Len(StepEvents) = 5
    /\ StepEvents[3] = Event("approval_denied_extra", "tool")
    /\ StepEvents[5] = Event("approval_denied", "reason")
    /\ Cardinality(always_deny_tools) = 1

\* ---------------------------------------------------------------------
\* The budgets of a managed run (specification SpecWorker): the worker builds
\* the RunConfig from the RunRequest and the manager's configuration, and the
\* step loop runs under it.

\* an Optional field: <<>> is None (or a missing key), <<x>> holds x
Optional(S) == { <<>> } \cup { <<x>> : x \in S }

\* the built-in defaults of _run_worker, lines 135-137
DefaultMaxSteps == 20
DefaultMaxRetries == 1
DefaultApprovalMode == "normal"

\* Python's `x or y` for an Optional int x: y when x is None or 0
Or(x, y) == IF x = <<>> \/ x = <<0>> THEN y ELSE x[1]

\* Python's `x or y` for an Optional str x: y when x is None or ''
OrText(x, y) == IF x = <<>> \/ x = <<"">> THEN y ELSE x[1]

\* self.cfg.get(key, default), with the value under the key as an Optional
ConfigGet(value, default) == IF value = <<>> THEN default ELSE value[1]

\* the RunRequests of the explored runs: each budget unset or a non-negative
\* integer, the approval mode unset
RunRequests ==
    [max_steps : Optional(0..MaxSteps), max_retries : Optional(0..MaxRetries),
     approval_mode : { <<>> }]

\* RunManager.cfg (line 67): no config.yaml (load_config returns {}), or one
\* that sets both budgets
ManagerConfigs ==
    { [max_steps |-> <<>>, max_retries |-> <<>>, approval_mode |-> <<>>],
      [max_steps |-> <<MaxSteps + 1>>, max_retries |-> <<MaxRetries>>,
       approval_mode |-> <<>>] }

\* _run_worker, lines 135-137 and 153-159: the RunConfig of the run
RunConfigOf(req, mcfg) ==
    [max_steps |-> Or(req.max_steps, ConfigGet(mcfg.max_steps, DefaultMaxSteps)),
     approval_mode |->
         OrText(req.approval_mode, ConfigGet(mcfg.approval_mode, DefaultApprovalMode)),
     max_retries |->
         Or(req.max_retries, ConfigGet(mcfg.max_retries, DefaultMaxRetries))]

\* _run_worker, lines 145-160: the orchestrator and the RunConfig are
\* constructed and orchestrator.run is called with the session of the run
_run_worker_run(r, mcfg) ==
    /\ r \in runs /\ wpc[r] = "construct"
    /\ pc = "idle"
    /\ cfg' = RunConfigOf(request[r], mcfg)
    /\ goal' = session[r]
    /\ pc' = "start"
    /\ wpc' = [wpc EXCEPT ![r] = "run"]
    /\ UNCHANGED <<runs, request, status, final_text, error, session, pending,
                   approval_answer, run_events, wstep, wcall, wresult, gate_ret,
                   next_request, approve_calls>>
    /\ api_ret' = NoApiRet
    /\ UNCHANGED <<lock_vars, policy_vars, oracle, step, decision, policy_status,
                   always_deny_tools, retries, last, messages, events, jsonl,
                   log_ok, result, call_vars>>

\* the oracle of the explored managed runs proposes the same allowed shell
\* command at every step or ends the run
WorkerDecisions ==
    { [kind |-> "final", action |-> <<>>, final_response |-> "done"],
      [kind |-> "action", action |-> << Shell(<<"l","s">>, "low") >>,
       final_response |-> None] }

\* one managed run: it is created and prepared, and its step loop runs under
\* the RunConfig; every approval request is answered 'Yes ' and every
\* execution of the tool times out, so that each budget is used in full
NextWorker ==
    \/ \E req \in RunRequests : runs = {} /\ create_run(req)
    \/ \E r \in RunIds : _run_worker_setup(r)
    \/ \E r \in RunIds, mcfg \in ManagerConfigs : _run_worker_run(r, mcfg)
    \/ RunStart
    \/ \E d \in WorkerDecisions : Decide(d, log_ok, log_ok)
    \/ AnswerInitial(<<"Y","e","s"," ">>, log_ok)
    \/ ToolReturn([ok |-> FALSE, error_type |-> "timeout"], log_ok)

SpecWorker == InitManager /\ [][NextWorker]_vars

\* the step loop of run r is under way or has returned
InLoop(r) == r \in runs /\ wpc[r] = "run"

\* C35 as stated: the step budget and the retry budget of a managed run are
\* the max_steps and max_retries of its RunRequest whenever they are
\* supplied, for every non-negative value, 0 included (with max_retries = 0
\* no tool call is executed a second time).
Cex_C35_BudgetsAsRequested ==
    \A r \in RunIds :
        InLoop(r) =>
            /\ request[r].max_steps # <<>> => cfg.max_steps = request[r].max_steps[1]
            /\ request[r].max_retries # <<>>
                  => cfg.max_retries = request[r].max_retries[1]
            /\ request[r].max_retries = <<0>> => attempts <= 1
            /\ request[r].max_steps = <<0>> => step = 0

=============================================================================
